---- MODULE Spec2Model ----
(***************************************************************************)
(* ECG pulse measurement: the serial frame decoder (parser.py, utils.py,   *)
(* virtual_sender.py), the sample window and the periodic tick of the main *)
(* window (main.py), and the reader thread (serial_manager.py).            *)
(*                                                                         *)
(* Bytes are integers 0..255.  Python floats are modelled by exact         *)
(* rationals: times are integers counted in 1/TimeUnitsPerSec seconds and  *)
(* voltages are integer numerators over a common denominator.              *)
(***************************************************************************)
EXTENDS Integers, Sequences, FiniteSets, TLC

VARIABLES
    \* ---- decoder (parser.py) and its byte source
    kind,       \* which family of byte streams this run feeds
    sent,       \* the sample lists the frames of the stream were built from
    stream,     \* the bytes the transport will deliver, in order
    pos,        \* how many bytes of stream have been fed so far
    nfeeds,     \* how many feed calls have returned
    buffer,     \* Parser.buffer
    results,    \* what the last feed call returned
    out,        \* concatenation of everything feed has returned
    feed_pc,    \* "loop" while a feed call is inside its while-loop
    \* ---- MainWindow parameters (main.py)
    sampling_rate,      \* self.sampling_rate, Hz
    time_window,        \* self.time_window, seconds
    adc_bits,           \* self.adc_bits
    vref,               \* self.vref, in tenths of a volt
    r_threshold_ratio,  \* self.r_threshold_ratio, in hundredths
    min_r_interval,     \* self.min_r_interval, in hundredths of a second
    \* ---- MainWindow sample window
    plot_x,         \* deque of timestamps, in time units
    plot_y,         \* deque of raw codes
    maxlen,         \* maxlen of both deques
    now,            \* time.time(), in time units
    \* ---- what the widgets show
    curve,              \* self.curve data: relative times and voltages
    r_peak_curve,       \* self.r_peak_curve data
    bpm_label,          \* the rate on bpm_label, None for "--"
    period_label,       \* hundredths of a second on period_label, None for "--"
    peak_to_peak_label, \* hundredths of a volt on peak_to_peak_label, None for "--"
    \* ---- history kept for the properties
    pushed,     \* the (timestamp, code) pairs appended since the deques were made
    delivered,  \* how many bytes the port has delivered
    last_op,    \* the handler that ran last
    ui_ops,     \* how many times the user has acted on the controls
    \* ---- detect_r_peaks and _estimate_bpm_from_wave called on their own
    signal,     \* the arguments of the call
    peaks_out,  \* whether detect_r_peaks was called, and what it returned
    bpm_out,    \* whether _estimate_bpm_from_wave was called, and what it returned
    \* ---- crc16_ccitt called on its own
    crc_data,   \* the bytes given to crc16_ccitt
    crc_out,    \* whether crc16_ccitt was called, and what it returned
    \* ---- threads: the GUI thread and the SerialThread reader
    running,        \* per thread, the handler call it is executing
    event_queue,    \* calls queued to the GUI thread's event loop
    observed,       \* what the last tick read: the deques, and the calls in progress
    ticks,          \* how many times the timer has fired
    \* ---- SerialThread (serial_manager.py)
    serial          \* its fields, the position of run() and of the open/close call

parserVars == <<kind, sent, stream, pos, nfeeds, buffer, results, out, feed_pc>>
paramVars == <<sampling_rate, time_window, adc_bits, vref, r_threshold_ratio, min_r_interval>>
bufferVars == <<plot_x, plot_y, maxlen>>
displayVars == <<curve, r_peak_curve, bpm_label, period_label, peak_to_peak_label>>
windowVars == <<paramVars, bufferVars, now, displayVars, pushed, delivered, last_op>>
algoVars == <<signal, peaks_out, bpm_out, crc_data, crc_out>>
threadVars == <<running, event_queue, observed, ticks, serial>>
vars == <<parserVars, windowVars, ui_ops, algoVars, threadVars>>

----------------------------------------------------------------------------
(* Generic helpers *)

None == -1

Max(a, b) == IF a >= b THEN a ELSE b
Min(a, b) == IF a <= b THEN a ELSE b

\* s[a:b] of Python for 0 <= a, 0-based, b exclusive, clipped to the sequence
Slice(s, a, b) == SubSeq(s, a + 1, Min(b, Len(s)))

\* bitwise exclusive or of two naturals (Python ^)
RECURSIVE Xor(_, _)
Xor(a, b) ==
    IF a = 0 THEN b
    ELSE IF b = 0 THEN a
    ELSE (((a % 2) + (b % 2)) % 2) + 2 * Xor(a \div 2, b \div 2)

----------------------------------------------------------------------------
(* utils.py *)

POLY == 4129        \* 0x1021
INIT_VAL == 65535   \* 0xFFFF

\* one of the 8 inner rounds: shift left, xor the polynomial when bit 15 was set
crc_round(crc) ==
    IF (crc \div 32768) % 2 = 1
    THEN Xor((crc * 2) % 65536, POLY)
    ELSE (crc * 2) % 65536

\* the 8 inner rounds of one byte
crc_rounds8 ==
    [c \in 0..65535 |->
        crc_round(crc_round(crc_round(crc_round(
        crc_round(crc_round(crc_round(crc_round(c))))))))]

\* a pass that xors the byte into the low half of crc
crc_byte_low(crc, b) == crc_rounds8[Xor(crc, b)]

\* one pass of the outer loop: crc ^= b << 8, then the 8 rounds
crc_byte(crc, b) == crc_rounds8[Xor(crc, b * 256)]

\* the value of crc after the first n bytes of data went through the outer
\* loop; pass[a, b, crc] is crc after the bytes a+1..b went through it, the
\* first half of them before the second
crc_upto(data, n) ==
    LET pass[a \in 0..n, b \in 0..n, crc \in 0..65535] ==
            IF a >= b THEN crc
            ELSE IF b = a + 1 THEN crc_byte(crc, data[b])
            ELSE pass[(a + b) \div 2, b, pass[a, (a + b) \div 2, crc]]
    IN  pass[0, n, INIT_VAL]

crc16_ccitt(data) == crc_upto(data, Len(data)) % 65536

----------------------------------------------------------------------------
(* virtual_sender.py and the struct packing both sides use *)

HEADER == <<170, 85>>
HEADER_LEN == 2

\* struct.pack('<H', x)
pack_H(x) == <<(x % 256), (x \div 256)>>

\* struct.unpack('<H', b)[0]
unpack_H(b) == b[1] + 256 * b[2]

RECURSIVE pack_samples(_)
pack_samples(samples) ==
    IF samples = <<>> THEN <<>>
    ELSE pack_H(Head(samples)[1] % 65536) \o pack_H(Head(samples)[2] % 65536)
         \o pack_samples(Tail(samples))

make_frame(samples) ==
    LET payload == pack_samples(samples)
        length == Len(payload)
        typ == 1
        header_and_len_type_payload == <<length, typ>> \o payload
        crc == crc16_ccitt(header_and_len_type_payload)
    IN  HEADER \o header_and_len_type_payload \o pack_H(crc)

----------------------------------------------------------------------------
(* parser.py *)

\* bytearray.find(HEADER, i): 0-based index of the first 0xAA 0x55 at or
\* after i, or -1
find_from(buf, i) ==
    IF \A j \in i..(Len(buf) - 2) :
           ~(buf[j + 1] = HEADER[1] /\ buf[j + 2] = HEADER[2])
    THEN -1
    ELSE CHOOSE j \in i..(Len(buf) - 2) :
             /\ buf[j + 1] = HEADER[1] /\ buf[j + 2] = HEADER[2]
             /\ \A k \in i..(j - 1) :
                    ~(buf[k + 1] = HEADER[1] /\ buf[k + 2] = HEADER[2])

find_header(buf) == find_from(buf, 0)

\* the entries one CRC-valid frame contributes to results
RECURSIVE adc_entries(_, _, _, _)
adc_entries(payload, frame, i, n) ==
    IF i >= n THEN <<>>
    ELSE LET off == i * 4
         IN  << [sample_id |-> unpack_H(Slice(payload, off, off + 2)),
                 adc |-> unpack_H(Slice(payload, off + 2, off + 4)),
                 type |-> None,
                 raw_frame |-> frame] >>
             \o adc_entries(payload, frame, i + 1, n)

\* variant: a frame of an unknown TYPE contributes nothing
frame_entries_known_only(frame) ==
    LET payload == Slice(frame, 4, Len(frame) - 2)
    IN  IF frame[4] = 1
        THEN adc_entries(payload, frame, 0, Len(payload) \div 4)
        ELSE <<>>

frame_entries(frame) ==
    LET typ == frame[4]
        payload == Slice(frame, 4, Len(frame) - 2)
    IN  IF typ = 1
        THEN adc_entries(payload, frame, 0, Len(payload) \div 4)
        ELSE << [sample_id |-> None, adc |-> None, type |-> typ, raw_frame |-> frame] >>

\* variant: the CRC comparison accepts every candidate
crc_ok_always(frame) == TRUE

\* whether the candidate frame's CRC field equals the CRC of LEN..payload
crc_ok(frame) ==
    LET crc_field == Slice(frame, Len(frame) - 2, Len(frame))
        payload_for_crc == Slice(frame, 2, Len(frame) - 2)
    IN  crc16_ccitt(payload_for_crc) = unpack_H(crc_field)

\* variant: the buffer is kept when no header is found
drop_noise_keep(buf) == buf

\* header not found: self.buffer.clear()
drop_noise(buf) == <<>>

\* variant: a CRC failure leaves the buffer as it is
resync_stay(buf) == buf

\* variant: a CRC failure drops the whole candidate frame
resync_drop_candidate(buf) == Slice(buf, 6 + buf[3], Len(buf))

\* CRC fail: del self.buffer[0]
resync(buf) == Tail(buf)

\* variant: only the header, LEN, TYPE, the whole groups of 4 payload bytes
\* and 2 more bytes are removed
consume_whole_groups(buf, total_len) ==
    Slice(buf, 6 + 4 * ((total_len - 6) \div 4), Len(buf))

\* CRC OK and entries appended: del self.buffer[:total_len]
consume(buf, total_len) == Slice(buf, total_len, Len(buf))

\* the while-loop of feed: returns the buffer and the results it ends with
RECURSIVE feed_loop(_, _)
feed_loop(buf, res) ==
    IF Len(buf) < HEADER_LEN + 1 + 1 + 2
    THEN [buffer |-> buf, results |-> res]
    ELSE LET idx == find_header(buf)
         IN  IF idx = -1
             THEN [buffer |-> drop_noise(buf), results |-> res]
             ELSE LET b1 == Slice(buf, idx, Len(buf))
                  IN  IF Len(b1) < 4
                      THEN [buffer |-> b1, results |-> res]
                      ELSE LET length == b1[3]
                               total_len == HEADER_LEN + 1 + 1 + length + 2
                           IN  IF Len(b1) < total_len
                               THEN [buffer |-> b1, results |-> res]
                               ELSE LET frame == Slice(b1, 0, total_len)
                                    IN  IF ~crc_ok(frame)
                                        THEN feed_loop(resync(b1), res)
                                        ELSE feed_loop(consume(b1, total_len),
                                                       res \o frame_entries(frame))

\* one pass through the body of the while-loop of feed: the buffer and the
\* results after it, and whether the pass left the loop (break)
loop_iteration(buf, res) ==
    IF Len(buf) < HEADER_LEN + 1 + 1 + 2
    THEN [buffer |-> buf, results |-> res, exits |-> TRUE]
    ELSE LET idx == find_header(buf)
         IN  IF idx = -1
             THEN [buffer |-> drop_noise(buf), results |-> res, exits |-> TRUE]
             ELSE LET b1 == Slice(buf, idx, Len(buf))
                  IN  IF Len(b1) < 4
                      THEN [buffer |-> b1, results |-> res, exits |-> TRUE]
                      ELSE LET length == b1[3]
                               total_len == HEADER_LEN + 1 + 1 + length + 2
                           IN  IF Len(b1) < total_len
                               THEN [buffer |-> b1, results |-> res, exits |-> TRUE]
                               ELSE LET frame == Slice(b1, 0, total_len)
                                    IN  IF ~crc_ok(frame)
                                        THEN [buffer |-> resync(b1), results |-> res,
                                              exits |-> FALSE]
                                        ELSE [buffer |-> consume(b1, total_len),
                                              results |-> res \o frame_entries(frame),
                                              exits |-> FALSE]

\* variant: the bytes left over from earlier calls are forgotten
feed_forgets_buffer(buf, data) == feed_loop(data, <<>>)

\* Parser.feed: extend the buffer, run the loop
feed(buf, data) == feed_loop(buf \o data, <<>>)

\* a 0-based index that a sequence of n elements has (no IndexError)
in_range(i, n) == 0 <= i /\ i < n

\* whether one pass through the while-loop of feed raises: an index past the
\* end of the buffer or the frame, or a struct.unpack on too few bytes
pass_raises(buf) ==
    IF Len(buf) < HEADER_LEN + 1 + 1 + 2 THEN FALSE
    ELSE LET idx == find_header(buf)
             b1 == Slice(buf, idx, Len(buf))
         IN  IF idx = -1 \/ Len(b1) < 4 THEN FALSE
             ELSE \/ ~in_range(2, Len(b1))
                  \/ LET total_len == HEADER_LEN + 1 + 1 + b1[3] + 2
                         frame == Slice(b1, 0, total_len)
                         crc_field == Slice(frame, Len(frame) - 2, Len(frame))
                         payload == Slice(frame, 4, Len(frame) - 2)
                     IN  /\ Len(b1) >= total_len
                         /\ \/ Len(crc_field) # 2
                            \/ /\ crc_ok(frame)
                               /\ \/ ~in_range(3, Len(frame))
                                  \/ /\ frame[4] = 1
                                     /\ \E i \in 0..((Len(payload) \div 4) - 1) :
                                            i * 4 + 4 > Len(payload)

\* whether the loop of feed, entered with buf, raises in one of its passes
RECURSIVE feed_raises(_)
feed_raises(buf) ==
    \/ pass_raises(buf)
    \/ LET r == loop_iteration(buf, <<>>)
       IN  ~r.exits /\ feed_raises(r.buffer)

----------------------------------------------------------------------------
(* main.py: constants and number helpers *)

DEFAULT_SAMPLING_RATE == 120
DEFAULT_WINDOW_SECONDS == 5
MAX_POINTS_LIMIT == 200000

\* time.time() and every timestamp count in 1/TimeUnitsPerSec seconds; the
\* modelled sampling rates all divide it, so 1/sampling_rate is exact
TimeUnitsPerSec == 60000

\* round(p / q) of Python for p >= 0, q > 0: ties go to the even integer
RoundHalfEven(p, q) ==
    LET f == p \div q
        r == p % q
    IN  IF 2 * r < q THEN f
        ELSE IF 2 * r > q THEN f + 1
        ELSE IF f % 2 = 0 THEN f ELSE f + 1

\* s[a] + ... + s[b], by halves
RECURSIVE SumRange(_, _, _)
SumRange(s, a, b) ==
    IF a > b THEN 0
    ELSE IF a = b THEN s[a]
    ELSE LET m == (a + b) \div 2
         IN  SumRange(s, a, m) + SumRange(s, m + 1, b)
Sum(s) == SumRange(s, 1, Len(s))

\* max(s) and min(s) of a non-empty sequence
SeqMax(s) == CHOOSE m \in { s[i] : i \in 1..Len(s) } : \A i \in 1..Len(s) : s[i] <= m
SeqMin(s) == CHOOSE m \in { s[i] : i \in 1..Len(s) } : \A i \in 1..Len(s) : s[i] >= m

\* [f(x) for x in s if keep(x)] for a sequence of numbers and a set to keep
RECURSIVE Filter(_, _)
Filter(s, keep) ==
    IF s = <<>> THEN <<>>
    ELSE IF Head(s) \in keep THEN <<Head(s)>> \o Filter(Tail(s), keep)
    ELSE Filter(Tail(s), keep)

----------------------------------------------------------------------------
(* main.py: R-peak detection and rate estimation.                          *)
(* raw_data is given as integer numerators over the denominator den, in    *)
(* volts; rel_xs are times in time units; indices are 0-based as in the    *)
(* source.                                                                 *)

\* variant: no minimum distance between peaks
min_interval_points_one(fs) == 1

\* max(1, int(round(self.min_r_interval * fs)))
min_interval_points(fs) == Max(1, RoundHalfEven(min_r_interval * fs, 100))

\* amp <= 1e-9
flat_signal(vmin, vmax, den) ==
    vmax = vmin \/ den \div (vmax - vmin) >= 1000000000

\* thr as a numerator over 2000 * n * den: vmean + ratio * (vmax - vmean),
\* raised to vmin + 0.005 * vref when it lies closer than that to vmin
threshold(raw_data, den) ==
    LET n == Len(raw_data)
        vmin == SeqMin(raw_data)
        vmax == SeqMax(raw_data)
        total == Sum(raw_data)
        thr == 20 * (100 * total + r_threshold_ratio * (n * vmax - total))
        v == IF vref # 0 THEN vref ELSE 10
        min_thr_offset == v * n * den
    IN  IF thr - 2000 * n * vmin < min_thr_offset
        THEN 2000 * n * vmin + min_thr_offset
        ELSE thr

\* variant: a scan that runs to the last sample
scan_range_to_end(n) == 1..(n - 1)

\* range(1, n - 1): the 0-based positions the for-loop of detect_r_peaks visits
scan_range(n) == 1..(n - 2)

\* the 0-based indices i of range(1, n - 1) that pass the loop's tests on the
\* values: above the threshold, above the left and not below the right sample
peak_candidates(raw_data, thr) ==
    { i \in scan_range(Len(raw_data)) :
        /\ ~(2000 * Len(raw_data) * raw_data[i + 1] <= thr)
        /\ raw_data[i + 1] > raw_data[i]
        /\ raw_data[i + 1] >= raw_data[i + 2] }

\* a scan whose last_peak starts at 0 instead of well before the slice
RECURSIVE scan_peaks_from_zero(_, _, _, _)
scan_peaks_from_zero(ahead, min_points, last_peak, acc) ==
    IF ahead = {} THEN acc
    ELSE LET i == CHOOSE c \in ahead : \A d \in ahead : c <= d
         IN  IF (i - Max(last_peak, 0)) >= min_points
             THEN scan_peaks_from_zero(ahead \ {i}, min_points, i, Append(acc, i))
             ELSE scan_peaks_from_zero(ahead \ {i}, min_points, last_peak, acc)

\* the for-loop of detect_r_peaks over the candidates still ahead, in
\* increasing order: one is appended when it is min_points past last_peak
RECURSIVE scan_peaks(_, _, _, _)
scan_peaks(ahead, min_points, last_peak, acc) ==
    IF ahead = {} THEN acc
    ELSE LET i == CHOOSE c \in ahead : \A d \in ahead : c <= d
         IN  IF (i - last_peak) >= min_points
             THEN scan_peaks(ahead \ {i}, min_points, i, Append(acc, i))
             ELSE scan_peaks(ahead \ {i}, min_points, last_peak, acc)

detect_r_peaks(raw_data, den, fs) ==
    LET n == Len(raw_data)
        fs1 == IF fs <= 0 THEN (IF sampling_rate > 0 THEN sampling_rate ELSE 120) ELSE fs
    IN  IF n < 3 THEN <<>>
        ELSE IF flat_signal(SeqMin(raw_data), SeqMax(raw_data), den) THEN <<>>
        ELSE scan_peaks(peak_candidates(raw_data, threshold(raw_data, den)),
                        min_interval_points(fs1),
                        -(min_interval_points(fs1) * 2), <<>>)

\* [peak_times[i] - peak_times[i - 1] for i in range(1, len(peak_times))]
peak_intervals(peaks, rel_xs) ==
    [i \in 1..(Len(peaks) - 1) |-> rel_xs[peaks[i + 1] + 1] - rel_xs[peaks[i] + 1]]

\* variant: every interval is kept
filter_intervals_all(intervals) == intervals

\* [it for it in intervals if 0.5 * avg <= it <= 1.5 * avg], avg their mean
filter_intervals(intervals) ==
    LET total == Sum(intervals)
        k == Len(intervals)
    IN  Filter(intervals, { it \in { intervals[i] : i \in 1..k } :
                              2 * k * it >= total /\ 2 * k * it <= 3 * total })

\* an estimator without the plausibility gate
bpm_gate_open(filtered) ==
    IF Sum(filtered) <= 0 THEN None
    ELSE RoundHalfEven(60 * TimeUnitsPerSec * Len(filtered), Sum(filtered))

\* the plausibility gate on bpm = 60 / mean_interval, with mean_interval the
\* mean of the filtered intervals (their sum over their count)
bpm_gate(filtered) ==
    LET total == Sum(filtered)
        k == Len(filtered)
        num == 60 * TimeUnitsPerSec * k
    IN  IF total <= 0 THEN None
        ELSE IF 30 * total <= num /\ num <= 220 * total
             THEN RoundHalfEven(num, total)
             ELSE None

\* lines after the peaks are known
bpm_from_peaks(peaks, rel_xs) ==
    IF Len(peaks) < 2 THEN None
    ELSE LET filtered == filter_intervals(peak_intervals(peaks, rel_xs))
         IN  IF filtered = <<>> THEN None ELSE bpm_gate(filtered)

estimate_bpm_from_wave(voltages, den, rel_xs) ==
    LET fs == sampling_rate
    IN  IF fs <= 0 \/ Len(voltages) < 3 THEN None
        ELSE bpm_from_peaks(detect_r_peaks(voltages, den, fs), rel_xs)

----------------------------------------------------------------------------
(* main.py: the sample window, the handlers and the periodic tick.         *)
(* Not modelled: raw_buffer, sample_times and the status text they feed    *)
(* (a log and a samples-per-second readout), the CSV writer (never         *)
(* opened), the axis ranges set at the end of on_timer.                    *)

\* a deque that never evicts
deque_append_unbounded(dq, x, cap) == Append(dq, x)

\* deque(maxlen=cap).append(x)
deque_append(dq, x, cap) ==
    IF Len(dq) >= cap THEN Tail(dq) \o <<x>> ELSE Append(dq, x)

\* pts of _recreate_buffers
recreate_pts(tw, fs) ==
    LET pts == tw * Max(1, fs)
    IN  IF pts <= 0 THEN 1
        ELSE IF pts > MAX_POINTS_LIMIT THEN MAX_POINTS_LIMIT
        ELSE pts

\* _adc_to_voltage: the numerator and the denominator of the voltage
max_code == 2 ^ adc_bits - 1
volt_den == IF max_code <= 0 THEN 1 ELSE 10 * max_code
adc_to_voltage(adc_raw) == IF max_code <= 0 THEN 0 ELSE adc_raw * vref

NoData == [xs |-> <<>>, ys |-> <<>>, den |-> 1]

\* the state right after MainWindow.__init__
\* the parameters __init__ sets
InitParams ==
    /\ sampling_rate = DEFAULT_SAMPLING_RATE
    /\ time_window = DEFAULT_WINDOW_SECONDS
    /\ adc_bits = 8
    /\ vref = 50
    /\ r_threshold_ratio = 45
    /\ min_r_interval = 45

\* the empty window and the placeholders of the widgets
InitBuffers ==
    /\ plot_x = <<>>
    /\ plot_y = <<>>
    /\ maxlen = recreate_pts(DEFAULT_WINDOW_SECONDS, DEFAULT_SAMPLING_RATE)
    /\ now = 0
    /\ curve = NoData
    /\ r_peak_curve = NoData
    /\ bpm_label = None
    /\ period_label = None
    /\ peak_to_peak_label = None
    /\ pushed = <<>>
    /\ delivered = 0
    /\ last_op = "init"

InitWindowState == InitParams /\ InitBuffers

\* a resize that keeps the samples
recreate_buffers_keep ==
    /\ maxlen' = recreate_pts(time_window', sampling_rate')
    /\ UNCHANGED <<plot_x, plot_y, pushed>>

\* _recreate_buffers with the new parameters
recreate_buffers ==
    /\ plot_x' = <<>>
    /\ plot_y' = <<>>
    /\ maxlen' = recreate_pts(time_window', sampling_rate')
    /\ pushed' = <<>>

on_window_changed(text) ==
    /\ time_window' = text
    /\ UNCHANGED <<sampling_rate, adc_bits, vref, r_threshold_ratio, min_r_interval>>
    /\ recreate_buffers
    /\ last_op' = "on_window_changed"
    /\ UNCHANGED <<now, displayVars, delivered>>

on_sampling_changed(v) ==
    /\ sampling_rate' = v
    /\ UNCHANGED <<time_window, adc_bits, vref, r_threshold_ratio, min_r_interval>>
    /\ recreate_buffers
    /\ last_op' = "on_sampling_changed"
    /\ UNCHANGED <<now, displayVars, delivered>>

on_adc_bits_changed(v) ==
    /\ adc_bits' = v
    /\ last_op' = "on_adc_bits_changed"
    /\ UNCHANGED <<sampling_rate, time_window, vref, r_threshold_ratio, min_r_interval>>
    /\ UNCHANGED <<bufferVars, now, displayVars, pushed, delivered>>

\* variant: a change of the reference voltage recreates the buffers
on_vref_changed_recreate(v) ==
    /\ vref' = v
    /\ last_op' = "on_vref_changed"
    /\ UNCHANGED <<sampling_rate, time_window, adc_bits, r_threshold_ratio, min_r_interval>>
    /\ recreate_buffers
    /\ UNCHANGED <<now, displayVars, delivered>>

on_vref_changed(v) ==
    /\ vref' = v
    /\ last_op' = "on_vref_changed"
    /\ UNCHANGED <<sampling_rate, time_window, adc_bits, r_threshold_ratio, min_r_interval>>
    /\ UNCHANGED <<bufferVars, now, displayVars, pushed, delivered>>

\* variant: the first byte is stamped now and later bytes later
byte_ts_forward(n, i) ==
    LET dt == IF sampling_rate > 0 THEN TimeUnitsPerSec \div sampling_rate ELSE 0
    IN  now + i * dt

\* the timestamp on_bytes gives byte i (0-based) of a chunk of n bytes
byte_ts(n, i) ==
    LET dt == IF sampling_rate > 0 THEN TimeUnitsPerSec \div sampling_rate ELSE 0
        base_offset == (n - 1) * dt
    IN  now - (base_offset - i * dt)

\* the deques after the bytes b[1..i] of the chunk were appended
RECURSIVE push_bytes(_, _)
push_bytes(b, i) ==
    IF i = 0 THEN [x |-> plot_x, y |-> plot_y, h |-> pushed]
    ELSE LET d == push_bytes(b, i - 1)
             ts == byte_ts(Len(b), i - 1)
             adc == b[i]
         IN  [x |-> deque_append(d.x, ts, maxlen),
              y |-> deque_append(d.y, adc, maxlen),
              h |-> Append(d.h, <<ts, adc>>)]

on_bytes(b) ==
    /\ IF b = <<>>
       THEN UNCHANGED <<plot_x, plot_y, pushed>>
       ELSE LET d == push_bytes(b, Len(b))
            IN  /\ plot_x' = d.x
                /\ plot_y' = d.y
                /\ pushed' = d.h
    /\ delivered' = delivered + Len(b)
    /\ last_op' = "on_bytes"
    /\ UNCHANGED <<paramVars, maxlen, now, displayVars>>

\* zip(self.plot_x, self.plot_y): the pairs up to the shorter length
zip_len(px, py) == Min(Len(px), Len(py))

\* variant: a sample stamped exactly start_ts is left out
window_indices_after(px, py, start_ts) ==
    { i \in 1..Min(Len(px), Len(py)) : px[i] > start_ts }

\* the positions of the pairs that on_timer keeps: ts >= start_ts
window_indices(px, py, start_ts) ==
    { i \in 1..zip_len(px, py) : px[i] >= start_ts }

\* the elements of s at the positions in idx, in order
RECURSIVE pick(_, _, _)
pick(s, idx, i) ==
    IF i > Len(s) THEN <<>>
    ELSE IF i \in idx THEN <<s[i]>> \o pick(s, idx, i + 1)
    ELSE pick(s, idx, i + 1)

map_voltage(codes) == [i \in 1..Len(codes) |-> adc_to_voltage(codes[i])]
shift_times(ts, start_ts) == [i \in 1..Len(ts) |-> ts[i] - start_ts]
at_indices(s, peaks) == [i \in 1..Len(peaks) |-> s[peaks[i] + 1]]

\* the period text of on_timer: mean of all peak intervals, to 2 decimals
period_text(peaks, rel_xs) ==
    IF Len(peaks) >= 2
    THEN LET intervals == peak_intervals(peaks, rel_xs)
         IN  RoundHalfEven(Sum(intervals) * 100, Len(intervals) * TimeUnitsPerSec)
    ELSE None

\* on_timer from "if not self.plot_x" on, reading the deques as px and py
tick_display(px, py) ==
    IF px = <<>>
    THEN UNCHANGED displayVars
    ELSE LET latest_ts == px[Len(px)]
             start_ts == latest_ts - time_window * TimeUnitsPerSec
             idx == window_indices(px, py, start_ts)
             abs_xs == pick(px, idx, 1)
             ys == map_voltage(pick(py, idx, 1))
             rel_xs == shift_times(abs_xs, start_ts)
             r_peak_indices == detect_r_peaks(ys, volt_den, sampling_rate)
         IN  IF abs_xs = <<>>
             THEN UNCHANGED displayVars
             ELSE /\ curve' = [xs |-> rel_xs, ys |-> ys, den |-> volt_den]
                  /\ peak_to_peak_label' =
                         RoundHalfEven((SeqMax(ys) - SeqMin(ys)) * 100, volt_den)
                  /\ bpm_label' = estimate_bpm_from_wave(ys, volt_den, rel_xs)
                  /\ period_label' = period_text(r_peak_indices, rel_xs)
                  /\ r_peak_curve' =
                         IF r_peak_indices # <<>>
                         THEN [xs |-> at_indices(rel_xs, r_peak_indices),
                               ys |-> at_indices(ys, r_peak_indices),
                               den |-> volt_den]
                         ELSE NoData

on_timer ==
    /\ last_op' = "on_timer"
    /\ UNCHANGED <<paramVars, bufferVars, now, pushed, delivered>>
    /\ tick_display(plot_x, plot_y)

\* whether a tick on the deques px and py raises: an index outside the slice
\* in the for-loop of detect_r_peaks, a peak index outside rel_xs or ys, or a
\* division by a count of zero
tick_raises(px, py) ==
    /\ px # <<>>
    /\ LET latest_ts == px[Len(px)]
           start_ts == latest_ts - time_window * TimeUnitsPerSec
           idx == window_indices(px, py, start_ts)
           abs_xs == pick(px, idx, 1)
           ys == map_voltage(pick(py, idx, 1))
           rel_xs == shift_times(abs_xs, start_ts)
           n == Len(ys)
           scans == n >= 3 /\ ~flat_signal(SeqMin(ys), SeqMax(ys), volt_den)
       IN  /\ abs_xs # <<>>
           /\ \/ /\ scans
                 /\ \E i \in scan_range(n) :
                        ~(in_range(i - 1, n) /\ in_range(i, n) /\ in_range(i + 1, n))
              \/ /\ scans
                 /\ LET peaks == detect_r_peaks(ys, volt_den, sampling_rate)
                    IN  \/ \E k \in 1..Len(peaks) :
                              ~(in_range(peaks[k], Len(rel_xs)) /\ in_range(peaks[k], n))
                        \/ Len(peaks) >= 2 /\ Len(peak_intervals(peaks, rel_xs)) = 0

clear_display ==
    /\ plot_x' = <<>>
    /\ plot_y' = <<>>
    /\ curve' = NoData
    /\ r_peak_curve' = NoData
    /\ peak_to_peak_label' = None
    /\ period_label' = None
    /\ bpm_label' = None
    /\ pushed' = <<>>
    /\ last_op' = "clear_display"
    /\ UNCHANGED <<paramVars, maxlen, now, delivered>>

\* wall-clock time passes between two handlers
advance_time(d) ==
    /\ now' = now + d
    /\ UNCHANGED <<paramVars, bufferVars, displayVars, pushed, delivered, last_op>>

----------------------------------------------------------------------------
(* The runs of the main window: handlers run one at a time on the GUI      *)
(* thread, fed with chunks of raw bytes                                    *)

MaxDelivered == 5
MaxNow == 1
MaxUiOps == 2

\* the values the runs pick in the controls (window_combo 2..20, sampling_spin
\* 1..20000, adc_bits_spin 1..32, vref_spin 0.1..10.0 V)
WindowChoices == {2, 20}
SamplingChoices == {1, 20000}
AdcBitsChoices == {8, 10}
VrefChoices == {33, 50}

\* the clock moves in steps of three seconds
TimeStep == 3 * TimeUnitsPerSec

\* the chunks the serial port delivers: one low byte, a low and a high byte,
\* or a burst holding two pulses
Chunks == { <<0>>, <<0, 200>>, <<0, 200, 0, 200, 0>> }

\* no call of the detector or the estimator on its own
NoSignal ==
    [kind |-> "none", raw_data |-> <<>>, den |-> 1, fs |-> 0, rel_xs |-> <<>>,
     gaps |-> <<>>, dt |-> 0, phase |-> 0, period |-> 0]
NotRun == [called |-> FALSE, value |-> <<>>]
Returned(v) == [called |-> TRUE, value |-> v]
InitCrcIdle ==
    /\ crc_data = <<>>
    /\ crc_out = NotRun

InitAlgoIdle ==
    /\ signal = NoSignal
    /\ peaks_out = NotRun
    /\ bpm_out = NotRun
    /\ InitCrcIdle

\* the threads: the GUI thread runs the handlers, the reader reads the port
Threads == {"gui", "reader"}
Call(op, arg) == [op |-> op, arg |-> arg, i |-> 0]
Idle == Call("idle", <<>>)
NoObservation == [x |-> <<>>, y |-> <<>>, in_progress |-> {}]

\* SerialThread.__init__: no port object, _running False, run() not started,
\* no open or close call in progress, no signal emitted, nothing received
SerialIdle ==
    [ser |-> None, is_open |-> {}, running |-> FALSE, run_pc |-> "unstarted",
     call_pc |-> "idle", in_open |-> FALSE, last_signal |-> "none",
     received |-> {}, opens |-> 0, closes |-> 0]

InitThreadsIdle ==
    /\ running = [th \in Threads |-> Idle]
    /\ event_queue = <<>>
    /\ observed = NoObservation
    /\ ticks = 0
    /\ serial = SerialIdle

InitParserIdle ==
    /\ kind = "idle"
    /\ sent = <<>>
    /\ stream = <<>>
    /\ pos = 0
    /\ nfeeds = 0
    /\ buffer = <<>>
    /\ results = <<>>
    /\ out = <<>>
    /\ feed_pc = "idle"

\* one more action of the user on the controls, within the budget of a run
UiOp ==
    /\ ui_ops < MaxUiOps
    /\ ui_ops' = ui_ops + 1

InitWindow == InitParserIdle /\ InitWindowState /\ ui_ops = 0 /\ InitAlgoIdle /\ InitThreadsIdle

NextWindow ==
    \/ \E b \in Chunks :
          /\ delivered + Len(b) <= MaxDelivered
          /\ on_bytes(b) /\ UNCHANGED <<parserVars, ui_ops, algoVars, threadVars>>
    \/ on_timer /\ UNCHANGED <<parserVars, ui_ops, algoVars, threadVars>>
    \/ \E t \in WindowChoices :
          on_window_changed(t) /\ UiOp /\ UNCHANGED <<parserVars, algoVars, threadVars>>
    \/ \E v \in SamplingChoices :
          on_sampling_changed(v) /\ UiOp /\ UNCHANGED <<parserVars, algoVars, threadVars>>
    \/ \E v \in AdcBitsChoices :
          on_adc_bits_changed(v) /\ UiOp /\ UNCHANGED <<parserVars, algoVars, threadVars>>
    \/ \E v \in VrefChoices :
          on_vref_changed(v) /\ UiOp /\ UNCHANGED <<parserVars, algoVars, threadVars>>
    \/ clear_display /\ UiOp /\ UNCHANGED <<parserVars, algoVars, threadVars>>
    \/ /\ now + TimeStep <= MaxNow * TimeStep
       /\ advance_time(TimeStep) /\ UNCHANGED <<parserVars, ui_ops, algoVars, threadVars>>

SpecWindow == InitWindow /\ [][NextWindow]_vars

----------------------------------------------------------------------------
(* The byte source of the decoder runs *)

MaxFrames == 2
NoiseLen == 7

\* (sample_id, adc) pairs; 21930 = 0x55AA and 43605 = 0xAA55 pack to bytes
\* that contain the header pair AA 55
FrameSamples ==
    { <<>>, << <<21930, 43605>> >>, << <<65535, 0>>, <<1, 21930>> >> }

\* the frame that gets one byte altered, and the valid frame that follows it
CorruptFirst == { << <<1, 2>> >>, << <<21930, 43605>> >> }
CorruptSecond == { << <<7, 8>> >> }

\* bytes of a stream that never contains the header pair
NoiseBytes == {0, 85, 170}

SeqsUpTo(S, n) == UNION { [1..k -> S] : k \in 1..n }

RECURSIVE frames_of(_)
frames_of(ss) == IF ss = <<>> THEN <<>> ELSE make_frame(Head(ss)) \o frames_of(Tail(ss))

RECURSIVE pairs_of(_)
pairs_of(ss) == IF ss = <<>> THEN <<>> ELSE Head(ss) \o pairs_of(Tail(ss))

\* the (sample_id, adc) pairs of a list of result entries
entry_pairs(es) == [i \in 1..Len(es) |-> <<es[i].sample_id, es[i].adc>>]

IsSuffix(t, s) == Len(t) <= Len(s) /\ SubSeq(s, Len(s) - Len(t) + 1, Len(s)) = t
IsSubstring(t, s) == \E i \in 0..(Len(s) - Len(t)) : SubSeq(s, i + 1, i + Len(t)) = t

\* valid frames back to back
InitFrames ==
    /\ kind = "frames"
    /\ sent \in SeqsUpTo(FrameSamples, MaxFrames)
    /\ stream = frames_of(sent)

\* a valid frame with exactly one byte altered, then a second valid frame
InitCorrupt ==
    /\ kind = "corrupt"
    /\ sent \in { <<s1, s2>> : s1 \in CorruptFirst, s2 \in CorruptSecond }
    /\ \E p \in 1..Len(make_frame(sent[1])) :
       \E v \in 0..255 \ {make_frame(sent[1])[p]} :
          stream = [make_frame(sent[1]) EXCEPT ![p] = v] \o make_frame(sent[2])

\* bytes that never contain the header pair
InitNoise ==
    /\ kind = "noise"
    /\ sent = <<>>
    /\ stream \in [1..NoiseLen -> NoiseBytes]
    /\ find_header(stream) = -1

InitParser ==
    /\ InitWindowState
    /\ ui_ops = 0
    /\ InitAlgoIdle
    /\ InitThreadsIdle
    /\ InitFrames \/ InitCorrupt \/ InitNoise
    /\ pos = 0
    /\ nfeeds = 0
    /\ buffer = <<>>
    /\ results = <<>>
    /\ out = <<>>
    /\ feed_pc = "idle"

\* the chunk sizes the transport may deliver next
ChunkSizes ==
    IF kind = "corrupt" THEN {Len(stream) - pos} ELSE 1..(Len(stream) - pos)

\* the transport delivers the next k bytes and the decoder is fed with them
Feed(k) ==
    /\ k >= 1
    /\ pos + k <= Len(stream)
    /\ LET r == feed(buffer, Slice(stream, pos, pos + k))
       IN  /\ buffer' = r.buffer
           /\ results' = r.results
           /\ out' = out \o r.results
    /\ pos' = pos + k
    /\ nfeeds' = nfeeds + 1
    /\ UNCHANGED <<kind, sent, stream, feed_pc>>
    /\ UNCHANGED <<windowVars, ui_ops, algoVars, threadVars>>

NextParser == \E k \in ChunkSizes : Feed(k)

SpecParser == InitParser /\ [][NextParser]_vars

\* feed entered with the next k bytes: self.buffer.extend(data); results = []
BeginFeed(k) ==
    /\ feed_pc = "idle"
    /\ k >= 1
    /\ pos + k <= Len(stream)
    /\ buffer' = buffer \o Slice(stream, pos, pos + k)
    /\ results' = <<>>
    /\ pos' = pos + k
    /\ feed_pc' = "loop"
    /\ UNCHANGED <<kind, sent, stream, nfeeds, out>>
    /\ UNCHANGED <<windowVars, ui_ops, algoVars, threadVars>>

\* one pass through the while-loop; on break, feed returns results
Iterate ==
    /\ feed_pc = "loop"
    /\ \E r \in {loop_iteration(buffer, results)} :
           /\ buffer' = r.buffer
           /\ results' = r.results
           /\ IF r.exits
              THEN /\ feed_pc' = "idle"
                   /\ out' = out \o r.results
                   /\ nfeeds' = nfeeds + 1
              ELSE UNCHANGED <<feed_pc, out, nfeeds>>
    /\ UNCHANGED <<kind, sent, stream, pos>>
    /\ UNCHANGED <<windowVars, ui_ops, algoVars, threadVars>>

\* the byte values a corrupted position is overwritten with
CorruptValues == {0, 85, 170, 255}

\* the two halves of the header pair, the bytes of the noise streams
HeaderHalves == {85, 170}

\* the streams of InitFrames whose frames carry one sample, those of
\* InitCorrupt whose corrupted byte is one of CorruptValues, and those of
\* InitNoise made of header halves
LoopStreams ==
    { [kind |-> "frames", sent |-> ss, stream |-> frames_of(ss)] :
        ss \in SeqsUpTo(CorruptFirst, MaxFrames) }
    \cup
    UNION { { [kind |-> "corrupt", sent |-> <<s1, s2>>,
               stream |-> [make_frame(s1) EXCEPT ![pv[1]] = pv[2]] \o make_frame(s2)] :
              pv \in { q \in (1..Len(make_frame(s1))) \X CorruptValues :
                         q[2] # make_frame(s1)[q[1]] } } :
            s1 \in CorruptFirst, s2 \in CorruptSecond }
    \cup
    { [kind |-> "noise", sent |-> <<>>, stream |-> n] :
        n \in { m \in [1..NoiseLen -> HeaderHalves] : find_header(m) = -1 } }

\* a fresh Parser, before the transport is connected
InitLoop ==
    /\ InitWindowState
    /\ ui_ops = 0
    /\ InitAlgoIdle
    /\ InitThreadsIdle
    /\ InitParserIdle

\* the transport is connected to one of the streams
Connect ==
    /\ kind = "idle"
    /\ \E st \in LoopStreams :
          /\ kind' = st.kind
          /\ sent' = st.sent
          /\ stream' = st.stream
    /\ UNCHANGED <<pos, nfeeds, buffer, results, out, feed_pc>>
    /\ UNCHANGED <<windowVars, ui_ops, algoVars, threadVars>>

NextLoop == Connect \/ (\E k \in ChunkSizes : BeginFeed(k)) \/ Iterate

\* a feed call that has been entered keeps running
SpecLoop == InitLoop /\ [][NextLoop]_vars /\ WF_vars(Iterate)

\* noise bytes without a header pair, then one valid frame
PrefixLen == 5

InitRecovery ==
    /\ InitWindowState
    /\ ui_ops = 0
    /\ InitAlgoIdle
    /\ InitThreadsIdle
    /\ kind = "recovery"
    /\ sent \in { <<s>> : s \in FrameSamples }
    /\ \E noise \in [1..PrefixLen -> NoiseBytes] :
          /\ find_header(noise) = -1
          /\ stream = noise \o make_frame(sent[1])
    /\ pos = 0
    /\ nfeeds = 0
    /\ buffer = <<>>
    /\ results = <<>>
    /\ out = <<>>
    /\ feed_pc = "idle"

SpecRecovery == InitRecovery /\ [][NextParser]_vars

----------------------------------------------------------------------------
(* Claims about the decoder, checked under SpecParser *)

AtEnd == pos = Len(stream) /\ nfeeds >= 1

\* C1: frames built by make_frame, fed under any partition into chunks, come
\* out as exactly the original (sample_id, adc) pairs in order, and the
\* buffer is empty at the end.
C1_RoundTrip ==
    (kind = "frames" /\ AtEnd) =>
        /\ entry_pairs(out) = pairs_of(sent)
        /\ buffer = <<>>

C1_Witness ==
    /\ kind = "frames" /\ AtEnd
    /\ nfeeds >= 3
    /\ Len(sent) = 2 /\ Len(out) >= 3
    /\ buffer = <<>>

\* C2 as stated: after one altered byte in the first frame, no entry comes
\* from the altered frame and the second frame's samples are emitted.
C2_Original ==
    (kind = "corrupt" /\ AtEnd) =>
        /\ \A i \in 1..Len(out) : out[i].raw_frame = make_frame(sent[2])
        /\ entry_pairs(out) = sent[2]

\* the buffer starts with a header whose declared frame is not complete yet
PendingCandidate(buf) ==
    /\ Len(buf) >= 6
    /\ SubSeq(buf, 1, 2) = HEADER
    /\ 6 + buf[3] > Len(buf)

\* 0-based offsets of s at which a header pair starts with its LEN byte present
HeaderOffsets(s) ==
    { o \in 0..(Len(s) - 3) : s[o + 1] = 170 /\ s[o + 2] = 85 }

\* offsets at which a complete candidate frame passes the CRC comparison
ValidOffsets(s) ==
    { o \in HeaderOffsets(s) :
        /\ o + 6 + s[o + 3] <= Len(s)
        /\ unpack_H(SubSeq(s, o + 5 + s[o + 3], o + 6 + s[o + 3]))
             = crc16_ccitt(SubSeq(s, o + 3, o + 4 + s[o + 3])) }

\* a header pair before the second frame declares more bytes than follow it
Stalls(s, second_at) ==
    \E o \in HeaderOffsets(s) : o < second_at /\ o + 6 + s[o + 3] > Len(s)

\* C2 amended: when the stream is fed in one call and no byte span other
\* than the second frame passes the CRC comparison, then (a) if a header
\* pair before the second frame declares a length 6 + LEN that reaches past
\* the end of the stream (LEN altered upwards, or an altered byte read as
\* LEN after an AA 55 in the payload), feed emits nothing and the second
\* frame stays, whole, at the end of the buffer behind that candidate;
\* (b) otherwise feed emits exactly the second frame's samples, every entry
\* carrying the second frame, and the buffer ends empty.
C2_Amended ==
    LET second_at == Len(make_frame(sent[1]))
    IN  (kind = "corrupt" /\ AtEnd /\ ValidOffsets(stream) = {second_at}) =>
            IF Stalls(stream, second_at)
            THEN /\ out = <<>>
                 /\ PendingCandidate(buffer)
                 /\ IsSuffix(make_frame(sent[2]), buffer)
            ELSE /\ \A i \in 1..Len(out) : out[i].raw_frame = make_frame(sent[2])
                 /\ entry_pairs(out) = sent[2]
                 /\ buffer = <<>>

C2_Witness ==
    /\ kind = "corrupt" /\ AtEnd
    /\ ValidOffsets(stream) = {Len(make_frame(sent[1]))}
    /\ ~Stalls(stream, Len(make_frame(sent[1])))
    /\ entry_pairs(out) = sent[2] /\ buffer = <<>>
    /\ stream[3] # make_frame(sent[1])[3]

C2_WitnessPending ==
    /\ kind = "corrupt" /\ AtEnd
    /\ ValidOffsets(stream) = {Len(make_frame(sent[1]))}
    /\ Stalls(stream, Len(make_frame(sent[1])))
    /\ out = <<>> /\ PendingCandidate(buffer)
    /\ stream[3] = make_frame(sent[1])[3]

\* C3 as stated: on a stream without the header pair the buffer is empty
\* after every feed call.
C3_Original == (kind = "noise" /\ nfeeds >= 1) => Len(buffer) = 0

\* C3 amended: on a stream without the header pair the buffer holds at most
\* 5 bytes after every feed call, and it is empty after every call in which
\* the buffered bytes plus the chunk were 6 or more.
C3_Amended ==
    /\ [](kind = "noise" => Len(buffer) <= 5)
    /\ [][(kind = "noise" /\ Len(buffer) + (pos' - pos) >= 6) => buffer' = <<>>]_vars

C3_Witness ==
    /\ kind = "noise" /\ nfeeds >= 3
    /\ pos >= 6 /\ Len(buffer) = 1

\* LEN through the end of payload, and the little-endian CRC field
CrcMatches(f) ==
    unpack_H(SubSeq(f, Len(f) - 1, Len(f))) = crc16_ccitt(SubSeq(f, 3, Len(f) - 2))

\* C4: every entry feed returns comes from a candidate frame in the stream
\* that starts with AA 55, is 6 + LEN bytes long and whose trailing
\* little-endian u16 equals the CRC of LEN..payload.
C4_CrcGate ==
    \A i \in 1..Len(results) :
        LET f == results[i].raw_frame
        IN  /\ Len(f) >= 6
            /\ SubSeq(f, 1, 2) = <<170, 85>>
            /\ Len(f) = 6 + f[3]
            /\ CrcMatches(f)
            /\ IsSubstring(f, stream)

C4_Witness ==
    /\ kind = "corrupt" /\ AtEnd
    /\ Len(results) >= 1
    /\ ~CrcMatches(SubSeq(stream, 1, 6 + make_frame(sent[1])[3]))

----------------------------------------------------------------------------
(* The sample window                                                       *)

\* the last n elements of s
LastN(s, n) == SubSeq(s, Len(s) - Min(n, Len(s)) + 1, Len(s))

\* C5: the window never holds more than its capacity, and it holds exactly
\* the most recent min(capacity, pushed) samples pushed since it was made, in
\* the order they were pushed, timestamps and codes evicted in lockstep.
C5_WindowEviction ==
    LET kept == LastN(pushed, maxlen)
    IN  /\ Len(plot_x) <= maxlen
        /\ Len(plot_x) = Len(plot_y)
        /\ Len(plot_x) = Min(maxlen, Len(pushed))
        /\ plot_x = [i \in 1..Len(kept) |-> kept[i][1]]
        /\ plot_y = [i \in 1..Len(kept) |-> kept[i][2]]

\* on_bytes has pushed more samples than the window can hold
C5_Witness ==
    /\ last_op = "on_bytes"
    /\ Len(pushed) > maxlen
    /\ Len(plot_x) = maxlen

\* C6: after a change of the window duration or of the sampling rate the
\* window is empty and its capacity is duration * rate clamped into
\* [1, MAX_POINTS_LIMIT].
C6_DestructiveResize ==
    last_op \in {"on_window_changed", "on_sampling_changed"} =>
        /\ plot_x = <<>>
        /\ plot_y = <<>>
        /\ maxlen = Max(1, Min(time_window * sampling_rate, MAX_POINTS_LIMIT))

\* a rate change after samples were delivered, with the capacity clamped
C6_Witness ==
    /\ last_op = "on_sampling_changed"
    /\ delivered > 0
    /\ time_window * sampling_rate > MAX_POINTS_LIMIT
    /\ maxlen = MAX_POINTS_LIMIT

\* C8: a tick that finds the window empty reports the empty result: no rate,
\* no peak marks, no period and no waveform of earlier samples.
C8_EmptyTick ==
    (last_op = "on_timer" /\ plot_x = <<>>) =>
        /\ bpm_label = None
        /\ period_label = None
        /\ r_peak_curve = NoData
        /\ curve = NoData

\* a tick on a window emptied by a reconfiguration still shows the old rate
C8_StaleRate ==
    /\ last_op = "on_timer"
    /\ plot_x = <<>>
    /\ bpm_label # None

----------------------------------------------------------------------------
(* detect_r_peaks and _estimate_bpm_from_wave called on a slice: pulse     *)
(* trains with chosen gaps between the pulses, and sawtooth waves          *)

MaxGaps == 3
GapChoices == {3, 5, 12}
FsChoices == {5, 6}
DtChoices == {3000, 10000, 12000}
SawLengths == {100, 125, 160}

\* the 0-based index of pulse k of a train whose first pulse is at index 1
RECURSIVE pulse_index(_, _)
pulse_index(gaps, k) == IF k = 0 THEN 1 ELSE pulse_index(gaps, k - 1) + gaps[k]

\* a 1 V pulse at every pulse index, 0 V elsewhere, one 0 V sample at the end;
\* the samples are stamped dt time units apart
pulse_signal(gaps, fs, dt) ==
    LET at == { pulse_index(gaps, k) : k \in 0..Len(gaps) }
        n == pulse_index(gaps, Len(gaps)) + 2
    IN  [kind |-> "pulses",
         raw_data |-> [i \in 1..n |-> IF (i - 1) \in at THEN 1 ELSE 0],
         den |-> 1, fs |-> fs,
         rel_xs |-> [i \in 1..n |-> (i - 1) * dt],
         gaps |-> gaps, dt |-> dt, phase |-> 0, period |-> 0]

\* n samples at 100 Hz of a ramp from 0 V to 1 V that restarts every 0.5 s
sawtooth_signal(phase, n) ==
    LET fs == 100
        period == fs \div 2
    IN  [kind |-> "sawtooth",
         raw_data |-> [i \in 1..n |-> (i - 1 + phase) % period],
         den |-> period - 1, fs |-> fs,
         rel_xs |-> [i \in 1..n |-> (i - 1) * (TimeUnitsPerSec \div fs)],
         gaps |-> <<>>, dt |-> TimeUnitsPerSec \div fs, phase |-> phase,
         period |-> period]

InitPulses ==
    /\ min_r_interval = 45
    /\ \E gaps \in SeqsUpTo(GapChoices, MaxGaps) \ {<<>>} :
       \E fs \in FsChoices : \E dt \in DtChoices :
          signal = pulse_signal(gaps, fs, dt)

InitSawtooth ==
    /\ min_r_interval = 30
    /\ \E n \in SawLengths : \E phase \in 0..49 :
          signal = sawtooth_signal(phase, n)

InitAlgo ==
    /\ InitParserIdle
    /\ InitBuffers
    /\ InitThreadsIdle
    /\ ui_ops = 0
    /\ time_window = DEFAULT_WINDOW_SECONDS
    /\ adc_bits = 8
    /\ vref = 50
    /\ r_threshold_ratio = 45
    /\ InitPulses \/ InitSawtooth
    /\ sampling_rate = signal.fs
    /\ peaks_out = NotRun
    /\ bpm_out = NotRun
    /\ InitCrcIdle

RunDetect ==
    /\ ~peaks_out.called
    /\ peaks_out' = Returned(detect_r_peaks(signal.raw_data, signal.den, signal.fs))
    /\ UNCHANGED <<parserVars, windowVars, ui_ops, signal, bpm_out, crc_data, crc_out,
                   threadVars>>

RunEstimate ==
    /\ ~bpm_out.called
    /\ bpm_out' = Returned(estimate_bpm_from_wave(signal.raw_data, signal.den,
                                                  signal.rel_xs))
    /\ UNCHANGED <<parserVars, windowVars, ui_ops, signal, peaks_out, crc_data, crc_out,
                   threadVars>>

NextAlgo == RunDetect \/ RunEstimate

SpecAlgo == InitAlgo /\ [][NextAlgo]_vars

----------------------------------------------------------------------------
(* The detector and the estimator                                          *)

\* the rate the gate lets through for a mean period of total / k time units
GatedRate(total, k) ==
    IF 30 * total <= 60 * TimeUnitsPerSec * k /\ 60 * TimeUnitsPerSec * k <= 220 * total
    THEN RoundHalfEven(60 * TimeUnitsPerSec * k, total)
    ELSE None

\* the positions of the gaps within half and one and a half times their mean
KeptGaps(gaps) ==
    { i \in 1..Len(gaps) : /\ 2 * Len(gaps) * gaps[i] >= Sum(gaps)
                            /\ 2 * Len(gaps) * gaps[i] <= 3 * Sum(gaps) }

Uniform(gaps) == \A i \in 1..Len(gaps) : gaps[i] = gaps[1]

\* C9: the estimator returns a rate only when 30 <= 60 / mean_period <= 220,
\* mean_period being the mean of the kept peak intervals, and None otherwise;
\* a returned rate is an integer in 30..220; uniform intervals of 2.4 s
\* (25 bpm) give None and uniform intervals of 5/6 s give 72 within 1.
C9_RateGate ==
    (bpm_out.called /\ signal.kind = "pulses") =>
        LET kept == KeptGaps(signal.gaps)
            total == Sum(pick(signal.gaps, kept, 1)) * signal.dt
        IN  /\ bpm_out.value # None => bpm_out.value \in 30..220
            /\ bpm_out.value =
                   IF kept = {} THEN None ELSE GatedRate(total, Cardinality(kept))
            /\ (Uniform(signal.gaps) /\ 5 * signal.gaps[1] * signal.dt = 12 * TimeUnitsPerSec)
                   => bpm_out.value = None
            /\ (Uniform(signal.gaps) /\ 6 * signal.gaps[1] * signal.dt = 5 * TimeUnitsPerSec)
                   => bpm_out.value \in 71..73

\* uniform intervals of 5/6 s, reported as 72
C9_Witness ==
    /\ bpm_out.called
    /\ signal.kind = "pulses"
    /\ Uniform(signal.gaps)
    /\ 6 * signal.gaps[1] * signal.dt = 5 * TimeUnitsPerSec
    /\ bpm_out.value = 72

\* uniform intervals of 2.4 s, rejected
C9_Rejected25 ==
    /\ bpm_out.called
    /\ signal.kind = "pulses"
    /\ Uniform(signal.gaps)
    /\ 5 * signal.gaps[1] * signal.dt = 12 * TimeUnitsPerSec
    /\ bpm_out.value = None

\* the interior tops of the ramp: where the next sample restarts from 0
SawTops(sig) ==
    { i \in 1..(Len(sig.raw_data) - 2) : (i + sig.phase) % sig.period = sig.period - 1 }

\* C10: on a sawtooth of period 0.5 s sampled at 100 Hz, with
\* min_r_interval 0.3 s and r_threshold_ratio 0.45, detect_r_peaks returns
\* exactly the interior tops of the ramp, so consecutive peaks are 50 samples
\* apart with none extra and none missing.
C10_Sawtooth ==
    (peaks_out.called /\ signal.kind = "sawtooth") =>
        LET p == peaks_out.value
        IN  /\ { p[k] : k \in 1..Len(p) } = SawTops(signal)
            /\ \A k \in 1..(Len(p) - 1) : p[k + 1] - p[k] = 50

\* three periods of the sawtooth were detected
C10_Witness ==
    /\ peaks_out.called
    /\ signal.kind = "sawtooth"
    /\ Len(peaks_out.value) >= 3

----------------------------------------------------------------------------
(* Threads.  SerialThread.run reads the port on the reader thread and      *)
(* emits bytes_received; the timer and the controls emit on the GUI        *)
(* thread.  A handler runs statement by statement on the thread that       *)
(* executes it, and the threads interleave between statements.             *)

MaxPortBytes == 3
MaxTicks == 2
PortChunks == { <<0>>, <<0, 200>> }

\* a connection that calls the slot on the emitting thread
slot_thread_direct(emitter) == emitter

\* the thread that executes a slot of the main window for a signal emitted on
\* thread emitter: the connections give no connection type and the window
\* lives in the GUI thread, so the call is made there
slot_thread(emitter) == "gui"

\* signal.emit(...) on thread emitter: the slot is called at once when it
\* runs on the emitting thread, and queued to the GUI event loop otherwise
emit(emitter, call) ==
    IF slot_thread(emitter) = emitter
    THEN /\ running' = [running EXCEPT ![emitter] = call]
         /\ UNCHANGED event_queue
    ELSE /\ event_queue' = Append(event_queue, call)
         /\ UNCHANGED running

\* the handler on thread th returns
return(th, op) ==
    /\ running' = [running EXCEPT ![th] = Idle]
    /\ last_op' = op

\* SerialThread.run: data = self._ser.read(n); self.bytes_received.emit(data)
ReaderEmits(b) ==
    /\ running["reader"] = Idle
    /\ delivered + Len(b) <= MaxPortBytes
    /\ delivered' = delivered + Len(b)
    /\ emit("reader", Call("on_bytes", b))
    /\ UNCHANGED <<parserVars, paramVars, bufferVars, now, displayVars, pushed,
                   last_op, ui_ops, algoVars, observed, ticks, serial>>

\* self.timer times out while the GUI event loop is idle
TimerFires ==
    /\ running["gui"] = Idle
    /\ ticks < MaxTicks
    /\ ticks' = ticks + 1
    /\ emit("gui", Call("on_timer", <<>>))
    /\ UNCHANGED <<parserVars, windowVars, ui_ops, algoVars, observed, serial>>

\* the user picks a window duration while the GUI event loop is idle
UserChangesWindow(text) ==
    /\ running["gui"] = Idle
    /\ UiOp
    /\ emit("gui", Call("on_window_changed", <<text>>))
    /\ UNCHANGED <<parserVars, windowVars, algoVars, observed, ticks, serial>>

\* the idle GUI event loop takes the next queued call
Dispatch ==
    /\ running["gui"] = Idle
    /\ event_queue # <<>>
    /\ running' = [running EXCEPT !["gui"] = Head(event_queue)]
    /\ event_queue' = Tail(event_queue)
    /\ UNCHANGED <<parserVars, windowVars, ui_ops, algoVars, observed, ticks, serial>>

\* one statement of the loop of on_bytes on thread th: statement 2j is
\* self.plot_x.append(ts) for byte j, statement 2j + 1 self.plot_y.append(adc)
StepOnBytes(th) ==
    LET r == running[th]
        n == Len(r.arg)
        j == r.i \div 2
    IN  /\ r.op = "on_bytes"
        /\ IF r.i % 2 = 0
           THEN /\ plot_x' = deque_append(plot_x, byte_ts(n, j), maxlen)
                /\ running' = [running EXCEPT ![th].i = r.i + 1]
                /\ UNCHANGED <<plot_y, pushed, last_op>>
           ELSE /\ plot_y' = deque_append(plot_y, r.arg[j + 1], maxlen)
                /\ pushed' = Append(pushed, <<byte_ts(n, j), r.arg[j + 1]>>)
                /\ UNCHANGED plot_x
                /\ IF r.i + 1 = 2 * n
                   THEN return(th, "on_bytes")
                   ELSE /\ running' = [running EXCEPT ![th].i = r.i + 1]
                        /\ UNCHANGED last_op
        /\ UNCHANGED <<parserVars, paramVars, maxlen, now, displayVars, delivered,
                       ui_ops, algoVars, event_queue, observed, ticks, serial>>

\* on_timer on thread th: it reads the deques, then computes and shows
StepOnTimer(th) ==
    LET r == running[th]
    IN  /\ r.op = "on_timer"
        /\ IF r.i = 0
           THEN /\ observed' =
                       [x |-> plot_x, y |-> plot_y,
                        in_progress |-> { t \in Threads \ {th} : running[t] # Idle }]
                /\ running' = [running EXCEPT ![th].i = 1]
                /\ UNCHANGED <<displayVars, last_op>>
           ELSE /\ tick_display(observed.x, observed.y)
                /\ return(th, "on_timer")
                /\ UNCHANGED observed
        /\ UNCHANGED <<parserVars, paramVars, bufferVars, now, pushed, delivered,
                       ui_ops, algoVars, event_queue, ticks, serial>>

\* on_window_changed on thread th: the new duration and the new plot_x,
\* then the new plot_y
StepOnWindowChanged(th) ==
    LET r == running[th]
    IN  /\ r.op = "on_window_changed"
        /\ IF r.i = 0
           THEN /\ time_window' = r.arg[1]
                /\ plot_x' = <<>>
                /\ maxlen' = recreate_pts(time_window', sampling_rate)
                /\ running' = [running EXCEPT ![th].i = 1]
                /\ UNCHANGED <<plot_y, pushed, last_op>>
           ELSE /\ plot_y' = <<>>
                /\ pushed' = <<>>
                /\ return(th, "on_window_changed")
                /\ UNCHANGED <<time_window, plot_x, maxlen>>
        /\ UNCHANGED <<sampling_rate, adc_bits, vref, r_threshold_ratio, min_r_interval,
                       parserVars, now, displayVars, delivered, ui_ops, algoVars,
                       event_queue, observed, ticks, serial>>

InitThreads ==
    InitParserIdle /\ InitWindowState /\ ui_ops = 0 /\ InitAlgoIdle /\ InitThreadsIdle

NextThreads ==
    \/ \E b \in PortChunks : ReaderEmits(b)
    \/ TimerFires
    \/ \E t \in WindowChoices : UserChangesWindow(t)
    \/ Dispatch
    \/ \E th \in Threads : StepOnBytes(th)
    \/ \E th \in Threads : StepOnTimer(th)
    \/ \E th \in Threads : StepOnWindowChanged(th)

SpecThreads == InitThreads /\ [][NextThreads]_vars

\* C7: the handlers never interleave: at most one call of on_bytes, on_timer
\* or on_window_changed is in progress at a time, each on the GUI thread, so
\* a tick reads the deques while no chunk is partly appended and no resize
\* is half done, and it finds plot_x and plot_y of the same length.
C7_NoInterleaving ==
    /\ Cardinality({ th \in Threads : running[th] # Idle }) <= 1
    /\ running["reader"] = Idle
    /\ observed.in_progress = {}
    /\ Len(observed.x) = Len(observed.y)

\* a tick is running on samples it read while a chunk the reader emitted
\* meanwhile waits in the event queue
C7_Witness ==
    /\ running["gui"].op = "on_timer"
    /\ running["gui"].i = 1
    /\ observed.x # <<>>
    /\ event_queue # <<>>

----------------------------------------------------------------------------
(* crc16_ccitt called on byte strings: the check string "123456789" and    *)
(* every string of up to MaxCrcLen bytes over CrcBytes                     *)

MaxCrcLen == 3
CrcBytes == {0, 1, 49, 170, 255}

\* b"123456789"
CheckString == <<49, 50, 51, 52, 53, 54, 55, 56, 57>>

InitCrc ==
    /\ InitParserIdle
    /\ InitWindowState
    /\ InitThreadsIdle
    /\ ui_ops = 0
    /\ signal = NoSignal
    /\ peaks_out = NotRun
    /\ bpm_out = NotRun
    /\ crc_data \in SeqsUpTo(CrcBytes, MaxCrcLen) \cup {CheckString}
    /\ crc_out = NotRun

RunCrc ==
    /\ ~crc_out.called
    /\ crc_out' = Returned(crc16_ccitt(crc_data))
    /\ UNCHANGED <<parserVars, windowVars, ui_ops, signal, peaks_out, bpm_out, crc_data,
                   threadVars>>

NextCrc == RunCrc

SpecCrc == InitCrc /\ [][NextCrc]_vars

\* C11: crc16_ccitt of the nine bytes "123456789" is 0x29B1 (10673), and
\* the result of every call lies in 0..0xFFFF.
C11_CrcCheckValue ==
    crc_out.called =>
        /\ crc_out.value \in 0..65535
        /\ crc_data = CheckString => crc_out.value = 10673

\* crc16_ccitt has returned for "123456789"
C11_Witness ==
    /\ crc_out.called
    /\ crc_data = CheckString
    /\ crc_out.value = 10673

----------------------------------------------------------------------------
(* Partial reads of frames that follow noise                               *)

\* C12: the concatenated output of feed does not depend on how the stream is
\* cut into chunks: it is what one feed call on the whole stream returns, so
\* a frame whose header bytes arrive in different chunks after noise is
\* decoded.
C12_PartitionIndependent ==
    (kind = "recovery" /\ pos = Len(stream)) =>
        out = feed(<<>>, stream).results

\* the whole stream was fed in two chunks and the samples of its frame, which
\* one feed call on the whole stream returns, were not decoded
C12_LostFrame ==
    /\ kind = "recovery"
    /\ pos = Len(stream)
    /\ nfeeds = 2
    /\ out = <<>>
    /\ feed(<<>>, stream).results # <<>>

----------------------------------------------------------------------------
(* The while-loop of feed, pass by pass                                    *)

\* C13: every feed call returns, and every pass through its loop that does
\* not leave the loop strictly shrinks the buffer; with the header at the
\* front of the buffer it shrinks by one byte (CRC mismatch) or by the whole
\* frame of 6 + LEN bytes (CRC match).
C13_Progress ==
    /\ [][(feed_pc = "loop" /\ feed_pc' = "loop") =>
            /\ Len(buffer') < Len(buffer)
            /\ LET idx == find_header(buffer)
               IN  Len(buffer) - Len(buffer') - idx \in {1, 6 + buffer[idx + 3]}]_vars
    /\ (feed_pc = "loop") ~> (feed_pc = "idle")

\* a feed call has gone round its loop past a CRC mismatch and returned
C13_Witness ==
    /\ kind = "corrupt"
    /\ feed_pc = "idle"
    /\ nfeeds = 1
    /\ Len(buffer) < Len(stream)

----------------------------------------------------------------------------
(* The decoder on malformed streams next to the window and its tick        *)

\* LEN, TYPE and payload framed as make_frame frames them, for any TYPE
framed(typ, payload) ==
    LET body == <<Len(payload), typ>> \o payload
    IN  HEADER \o body \o pack_H(crc16_ccitt(body))

\* a frame with a wrong CRC, a frame cut short, a frame of an unknown type,
\* noise holding a header pair whose CRC field starts another header pair
MalformedStreams ==
    { [make_frame(<< <<1, 2>> >>) EXCEPT ![10] = 0],
      Slice(make_frame(<< <<1, 2>> >>), 0, 7),
      framed(2, <<9>>),
      <<0, 170, 85, 1, 1, 170, 85, 0>> }

\* a frame of type 0x01 whose payload is not a whole number of samples
RaggedStreams == { framed(1, <<1, 0, 2, 0, 3>>), framed(1, <<1, 0, 2>>) }

InitCore ==
    /\ InitWindowState
    /\ ui_ops = 0
    /\ InitAlgoIdle
    /\ InitThreadsIdle
    /\ \/ kind = "malformed" /\ stream \in MalformedStreams
       \/ kind = "ragged" /\ stream \in RaggedStreams
    /\ sent = <<>>
    /\ pos = 0
    /\ nfeeds = 0
    /\ buffer = <<>>
    /\ results = <<>>
    /\ out = <<>>
    /\ feed_pc = "idle"

\* the decoder is fed three bytes at a time or with all that is left
CoreChunk == 3

\* the sampling rate at which neighbouring bytes lie one second apart
SlowRate == 1

NextCore ==
    \/ \E k \in {CoreChunk, Len(stream) - pos} : Feed(k)
    \/ \E b \in Chunks :
          /\ delivered + Len(b) <= MaxDelivered
          /\ on_bytes(b) /\ UNCHANGED <<parserVars, ui_ops, algoVars, threadVars>>
    \/ on_timer /\ UNCHANGED <<parserVars, ui_ops, algoVars, threadVars>>
    \/ on_sampling_changed(SlowRate) /\ UNCHANGED <<parserVars, ui_ops, algoVars, threadVars>>
    \/ /\ now + TimeStep <= MaxNow * TimeStep
       /\ advance_time(TimeStep) /\ UNCHANGED <<parserVars, ui_ops, algoVars, threadVars>>

SpecCore == InitCore /\ [][NextCore]_vars

\* the slice the last tick drew holds fewer than 3 samples, or equal samples,
\* or peaks whose mean interval lies outside 30..220 per minute
ShortSlice == curve # NoData /\ Len(curve.ys) < 3
FlatSlice == curve # NoData /\ \A i \in 1..Len(curve.ys) : curve.ys[i] = curve.ys[1]
ImplausibleSlice ==
    /\ r_peak_curve # NoData
    /\ Len(r_peak_curve.xs) = 2
    /\ LET gap == r_peak_curve.xs[2] - r_peak_curve.xs[1]
       IN  gap > 2 * TimeUnitsPerSec \/ 220 * gap < 60 * TimeUnitsPerSec

\* C14: neither a feed call on the bytes still to come nor a tick on the
\* window raises or reads out of bounds; a malformed stream yields no sample,
\* a slice of fewer than 3 samples or a flat slice no peak and no rate,
\* implausible intervals no rate; the decoder buffer stays a sequence of
\* bytes no longer than the stream and the two deques stay equally long and
\* within their capacity.
C14_NothingFatal ==
    /\ ~feed_raises(buffer \o Slice(stream, pos, Len(stream)))
    /\ \A k \in 1..(Len(stream) - pos) : ~feed_raises(buffer \o Slice(stream, pos, pos + k))
    /\ ~tick_raises(plot_x, plot_y)
    /\ kind = "malformed" => \A i \in 1..Len(out) : out[i].adc = None
    /\ ShortSlice \/ FlatSlice => r_peak_curve = NoData /\ bpm_label = None
    /\ ImplausibleSlice => bpm_label = None
    /\ buffer \in Seq(0..255) /\ Len(buffer) <= Len(stream)
    /\ Len(plot_x) = Len(plot_y) /\ Len(plot_x) <= maxlen

\* every malformed byte went into the decoder and nothing came out, and the
\* last tick drew a slice with two peaks too far apart for a rate
C14_Witness ==
    /\ kind = "malformed"
    /\ pos = Len(stream)
    /\ Len(stream) = 10 /\ stream[10] = 0
    /\ out = <<>>
    /\ last_op = "on_timer"
    /\ ImplausibleSlice
    /\ bpm_label = None

----------------------------------------------------------------------------
(* The order of the timestamps in the window                               *)

\* C15: after any chunk deliveries at non-decreasing clock readings the
\* timestamps in plot_x are non-decreasing from oldest to newest.
C15_TimeOrdered ==
    \A i \in 1..(Len(plot_x) - 1) : plot_x[i] <= plot_x[i + 1]

\* a chunk was just stamped and an older sample carries a later timestamp
\* than a newer one
C15_OutOfOrder ==
    /\ last_op = "on_bytes"
    /\ \E i \in 1..(Len(plot_x) - 1) : plot_x[i] > plot_x[i + 1]

----------------------------------------------------------------------------
(* The period and the rate a tick shows                                    *)

\* the intervals between the peaks the last tick marked
MarkedGaps ==
    [i \in 1..(Len(r_peak_curve.xs) - 1) |-> r_peak_curve.xs[i + 1] - r_peak_curve.xs[i]]

\* C16: the period and the rate on display are both present or both absent,
\* and a period on display is the mean of the outlier-filtered intervals
\* between the marked peaks (shown to 2 decimals).
C16_RatePeriod ==
    /\ (bpm_label = None) <=> (period_label = None)
    /\ period_label # None =>
          LET filtered == filter_intervals(MarkedGaps)
          IN  /\ filtered # <<>>
              /\ period_label =
                     RoundHalfEven(Sum(filtered) * 100, Len(filtered) * TimeUnitsPerSec)

\* a tick on a window in time order has just shown a period of 3.00 s and
\* no rate
C16_PeriodWithoutRate ==
    /\ last_op = "on_timer"
    /\ \A i \in 1..(Len(plot_x) - 1) : plot_x[i] <= plot_x[i + 1]
    /\ period_label = 300
    /\ bpm_label = None

----------------------------------------------------------------------------
(* The window fed by a transport that carries protocol frames              *)

\* the reader thread reads the k bytes waiting on the port and emits them;
\* the signal is connected to on_bytes
Receive(k) ==
    /\ k >= 1
    /\ pos + k <= Len(stream)
    /\ on_bytes(Slice(stream, pos, pos + k))
    /\ pos' = pos + k
    /\ UNCHANGED <<kind, sent, stream, nfeeds, buffer, results, out, feed_pc>>
    /\ UNCHANGED <<ui_ops, algoVars, threadVars>>

\* a sender's frames are on the wire, the window and the decoder are fresh
InitTransport ==
    /\ InitWindowState
    /\ ui_ops = 0
    /\ InitAlgoIdle
    /\ InitThreadsIdle
    /\ InitFrames
    /\ pos = 0
    /\ nfeeds = 0
    /\ buffer = <<>>
    /\ results = <<>>
    /\ out = <<>>
    /\ feed_pc = "idle"

\* the port hands over what has arrived: a few bytes or all of it
PortReads == {CoreChunk, Len(stream) - pos}

NextTransport ==
    \/ \E k \in PortReads : Receive(k)
    \/ on_timer /\ UNCHANGED <<parserVars, ui_ops, algoVars, threadVars>>

SpecTransport == InitTransport /\ [][NextTransport]_vars

\* the adc values of a list of result entries that carry one
RECURSIVE entry_adcs(_)
entry_adcs(es) ==
    IF es = <<>> THEN <<>>
    ELSE (IF Head(es).adc # None THEN <<Head(es).adc>> ELSE <<>>) \o entry_adcs(Tail(es))

\* C17: every chunk received went through Parser.feed and the samples pushed
\* into the window are exactly the adc values decoded from the bytes received
\* so far; no header, LEN, TYPE, sample_id or CRC byte is among them.
C17_ThroughDecoder ==
    /\ pos > 0 => nfeeds > 0
    /\ [i \in 1..Len(pushed) |-> pushed[i][2]] =
           entry_adcs(feed(<<>>, Slice(stream, 0, pos)).results)

\* a whole frame has arrived, the decoder was never fed, and the window
\* holds the frame's bytes, header and CRC included
C17_RawBytesInWindow ==
    /\ pos = Len(stream)
    /\ pos > 0
    /\ nfeeds = 0
    /\ buffer = <<>>
    /\ plot_y = stream

----------------------------------------------------------------------------
(* What a change of a parameter does to the window                         *)

\* C18: a change of the ADC bit depth or of the reference voltage leaves the
\* contents and the capacity of the window and the decoder buffer as they
\* were; the capacity changes, and a filled window is emptied without a
\* clear, only by a change of the window duration or of the sampling rate.
C18_NarrowRecompute ==
    [][/\ last_op' \in {"on_adc_bits_changed", "on_vref_changed"} =>
            UNCHANGED <<plot_x, plot_y, maxlen, buffer>>
       /\ maxlen' # maxlen =>
            last_op' \in {"on_window_changed", "on_sampling_changed"}
       /\ (plot_x # <<>> /\ plot_x' = <<>>) =>
            last_op' \in {"on_window_changed", "on_sampling_changed", "clear_display"}]_vars

\* both parameters were changed on a window holding samples, which it still
\* holds
C18_Witness ==
    /\ last_op = "on_vref_changed"
    /\ vref = 33
    /\ adc_bits = 10
    /\ Len(plot_x) = MaxDelivered
    /\ maxlen = recreate_pts(DEFAULT_WINDOW_SECONDS, DEFAULT_SAMPLING_RATE)

----------------------------------------------------------------------------
(* The timestamps on_bytes gives the bytes of a chunk                      *)

\* C19: a chunk of n >= 1 bytes handled at time now with sampling rate r adds
\* exactly n samples in byte order; sample i (0-based) carries the byte's
\* value and the timestamp now - (n-1-i)/r, so the last one carries now.
C19_ByteStamps ==
    [][(last_op' = "on_bytes" /\ delivered' > delivered) =>
          LET n == delivered' - delivered
              stamped(i) == pushed'[Len(pushed) + i + 1]
          IN  /\ Len(pushed') = Len(pushed) + n
              /\ SubSeq(pushed', 1, Len(pushed)) = pushed
              /\ \E b \in Chunks :
                    /\ Len(b) = n
                    /\ \A i \in 0..(n - 1) :
                          /\ stamped(i)[2] = b[i + 1]
                          /\ (now - stamped(i)[1]) * sampling_rate =
                                 (n - 1 - i) * TimeUnitsPerSec
              /\ stamped(n - 1)[1] = now
              /\ plot_x'[Len(plot_x')] = now
              /\ plot_y'[Len(plot_y')] = stamped(n - 1)[2]]_vars

\* a burst of five bytes was stamped at one sample per second, three seconds
\* after the start: from now - 4 s up to now
C19_Witness ==
    /\ last_op = "on_bytes"
    /\ sampling_rate = 1
    /\ now = TimeStep
    /\ Len(pushed) = 5
    /\ pushed[1][1] = now - 4 * TimeUnitsPerSec
    /\ pushed[5][1] = now

----------------------------------------------------------------------------
(* A false header in front of a valid frame                                *)

\* the bytes between the false header pair and the frame: a LEN byte, then
\* up to MaxGap more bytes
MaxGap == 3
FalseLens == {0, 8}
GapBytes == {0, 85, 170}

\* the valid frames that follow
ResyncSamples == { << <<1, 2>> >>, << <<21930, 43605>> >> }

\* a false header pair with its LEN byte and a few more bytes, a valid frame
\* right behind them, and at most one byte after it
ResyncStreams ==
    { [sent |-> <<s>>,
       stream |-> HEADER \o <<len>> \o gap \o make_frame(s) \o post] :
        s \in ResyncSamples, len \in FalseLens,
        gap \in UNION { [1..k -> GapBytes] : k \in 0..MaxGap },
        post \in { <<>>, <<0>> } }

InitResync ==
    /\ InitWindowState
    /\ ui_ops = 0
    /\ InitAlgoIdle
    /\ InitThreadsIdle
    /\ kind = "resync"
    /\ \E st \in ResyncStreams : sent = st.sent /\ stream = st.stream
    /\ pos = 0
    /\ nfeeds = 0
    /\ buffer = <<>>
    /\ results = <<>>
    /\ out = <<>>
    /\ feed_pc = "idle"

SpecResync == InitResync /\ [][NextParser]_vars

\* the 0-based offset at which the valid frame starts in the stream
FrameAt ==
    LET frame == make_frame(sent[1])
        at == { o \in 0..(Len(stream) - Len(frame)) :
                  SubSeq(stream, o + 1, o + Len(frame)) = frame }
    IN  CHOOSE o \in at : \A q \in at : o <= q

\* the header pairs in front of the valid frame
FalseCandidates == { o \in HeaderOffsets(stream) : o < FrameAt }

\* C20: when the header pairs in front of a valid frame all fail the CRC
\* comparison, the frame is decoded by the feed call that brings in the last
\* byte of the frame and of every such candidate's declared length 6 + LEN,
\* whether the frame begins inside a candidate's span or right after it.
C20_ResyncKeepsFrame ==
    LET frame == make_frame(sent[1])
    IN  ( /\ nfeeds >= 1
          /\ ValidOffsets(stream) = {FrameAt}
          /\ pos >= FrameAt + Len(frame)
          /\ \A o \in FalseCandidates : pos >= o + 6 + stream[o + 3] )
        => /\ entry_pairs(out) = sent[1]
           /\ \A i \in 1..Len(out) : out[i].raw_frame = frame

\* the candidate at the front had its 6 declared bytes buffered together
\* with the first byte of the frame right behind it; the whole stream has
\* arrived, nothing came out and nothing is left in the buffer
C20_FrameLost ==
    /\ kind = "resync"
    /\ FalseCandidates = {0} /\ stream[3] = 0
    /\ FrameAt = 6
    /\ ValidOffsets(stream) = {FrameAt}
    /\ pos = Len(stream)
    /\ nfeeds = 2
    /\ out = <<>>
    /\ buffer = <<>>

----------------------------------------------------------------------------
(* CRC-valid frames of any TYPE and any payload length, followed by more   *)
(* bytes                                                                   *)

MaxPayload == 9
TypeChoices == {0, 1, 2, 255}

\* the payload bytes: 1 0 2 0 3 0 ... cut to the payload length
payload_bytes(len) == [i \in 1..len |-> IF i % 2 = 1 THEN (i + 1) \div 2 ELSE 0]

\* what follows the frame on the wire: nothing, one byte, or a valid frame
FrameTails ==
    { [sent |-> <<>>, bytes |-> <<>>],
      [sent |-> <<>>, bytes |-> <<0>>],
      [sent |-> << << <<7, 8>> >> >>, bytes |-> make_frame(<< <<7, 8>> >>)] }

InitTyped ==
    /\ InitWindowState
    /\ ui_ops = 0
    /\ InitAlgoIdle
    /\ InitThreadsIdle
    /\ kind = "typed"
    /\ \E typ \in TypeChoices : \E len \in 0..MaxPayload : \E tail \in FrameTails :
          /\ sent = tail.sent
          /\ stream = framed(typ, payload_bytes(len)) \o tail.bytes
    /\ pos = 0
    /\ nfeeds = 0
    /\ buffer = <<>>
    /\ results = <<>>
    /\ out = <<>>
    /\ feed_pc = "idle"

\* the transport delivers one byte, a few bytes, or all that is left
TypedChunks == {1, CoreChunk, Len(stream) - pos}

NextTyped == \E k \in TypedChunks : Feed(k)

SpecTyped == InitTyped /\ [][NextTyped]_vars

\* the frame at the front of the stream, its payload, and what follows it
FirstFrame == Slice(stream, 0, 6 + stream[3])
FirstPayload == Slice(stream, 4, 4 + stream[3])
AfterFirst == Slice(stream, 6 + stream[3], Len(stream))

\* the (sample_id, adc) pairs of the whole groups of 4 bytes of a payload
whole_groups(p) ==
    [g \in 1..(Len(p) \div 4) |->
        << p[4 * g - 3] + 256 * p[4 * g - 2], p[4 * g - 1] + 256 * p[4 * g] >>]

\* C21: a CRC-valid frame of TYPE 0x01 with a payload of L bytes yields
\* exactly floor(L / 4) samples, the whole groups of 4 bytes in order (none
\* for L = 0..3, the trailing L mod 4 bytes are dropped), in the feed call
\* that completes it; that call removes all 6 + L bytes of the frame, so the
\* bytes after it are decoded next: a frame behind it comes out, a lone byte
\* behind it stays in the buffer.
C21_RaggedPayload ==
    /\ [][(stream[4] = 1 /\ pos < 6 + stream[3] /\ pos' >= 6 + stream[3]) =>
            LET k == stream[3] \div 4
            IN  /\ Len(results') >= k
                /\ entry_pairs(SubSeq(results', 1, k)) = whole_groups(FirstPayload)
                /\ \A i \in 1..k : results'[i].raw_frame = FirstFrame
                /\ \A i \in (k + 1)..Len(results') : results'[i].raw_frame # FirstFrame
                /\ buffer' \o Slice(stream, pos', Len(stream)) \in
                       {AfterFirst, <<>>}]_vars
    /\ [](( stream[4] = 1 /\ AtEnd) =>
            /\ entry_pairs(out) = whole_groups(FirstPayload) \o pairs_of(sent)
            /\ buffer = IF sent = <<>> THEN AfterFirst ELSE <<>>)

\* a frame whose payload holds two samples and a lone ninth byte, followed by
\* a second frame, has come out as three samples
C21_Witness ==
    /\ kind = "typed"
    /\ stream[4] = 1 /\ stream[3] = 9
    /\ AtEnd /\ nfeeds >= 2
    /\ sent # <<>>
    /\ Len(out) = 3
    /\ buffer = <<>>


\* the entry an unknown TYPE contributes: type and raw frame, no sample
RawEntry(frame) ==
    [sample_id |-> None, adc |-> None, type |-> frame[4], raw_frame |-> frame]

\* C22: a CRC-valid frame whose TYPE is not 0x01 yields, in the feed call
\* that completes it, exactly one entry: the frame's bytes unchanged and its
\* TYPE, without sample_id or adc, whatever the payload length; the frame is
\* removed whole, so what follows it is decoded next.
C22_UnknownType ==
    /\ [][(stream[4] # 1 /\ pos < 6 + stream[3] /\ pos' >= 6 + stream[3]) =>
            /\ Len(results') >= 1
            /\ results'[1] = RawEntry(FirstFrame)
            /\ \A i \in 2..Len(results') : results'[i].raw_frame # FirstFrame
            /\ buffer' \o Slice(stream, pos', Len(stream)) \in {AfterFirst, <<>>}]_vars
    /\ []((stream[4] # 1 /\ AtEnd) =>
            /\ Len(out) = 1 + Len(pairs_of(sent))
            /\ out[1] = RawEntry(FirstFrame)
            /\ entry_pairs(SubSeq(out, 2, Len(out))) = pairs_of(sent)
            /\ buffer = IF sent = <<>> THEN AfterFirst ELSE <<>>)

\* a frame of TYPE 0xFF with a payload of 9 bytes came out as one raw entry,
\* and the frame behind it as a sample
C22_Witness ==
    /\ kind = "typed"
    /\ stream[4] = 255 /\ stream[3] = 9
    /\ AtEnd /\ nfeeds >= 2
    /\ Len(out) = 2
    /\ out[1].type = 255 /\ out[1].adc = None /\ Len(out[1].raw_frame) = 15
    /\ out[2].adc = 8
    /\ buffer = <<>>

----------------------------------------------------------------------------
(* Empty chunks: feed and on_bytes called with no bytes                    *)

MaxFeeds == 4

\* feed(b''): nothing is added to the buffer, the loop runs on what is there
FeedEmpty ==
    /\ LET r == feed(buffer, <<>>)
       IN  /\ buffer' = r.buffer
           /\ results' = r.results
           /\ out' = out \o r.results
    /\ nfeeds' = nfeeds + 1
    /\ UNCHANGED <<kind, sent, stream, pos, feed_pc>>
    /\ UNCHANGED <<windowVars, ui_ops, algoVars, threadVars>>

\* two valid frames; a frame with a wrong CRC, or with LEN raised, before a
\* valid frame; noise; noise that ends in the first half of the header
EmptyFeedStreams ==
    { [kind |-> "frames", sent |-> << << <<1, 2>> >>, << <<7, 8>> >> >>,
       stream |-> make_frame(<< <<1, 2>> >>) \o make_frame(<< <<7, 8>> >>)],
      [kind |-> "corrupt", sent |-> << << <<1, 2>> >>, << <<7, 8>> >> >>,
       stream |-> [make_frame(<< <<1, 2>> >>) EXCEPT ![10] = 0]
                  \o make_frame(<< <<7, 8>> >>)],
      [kind |-> "corrupt", sent |-> << << <<1, 2>> >>, << <<7, 8>> >> >>,
       stream |-> [make_frame(<< <<1, 2>> >>) EXCEPT ![3] = 255]
                  \o make_frame(<< <<7, 8>> >>)],
      [kind |-> "noise", sent |-> <<>>, stream |-> <<0, 85, 0, 170, 0, 85, 170>>],
      [kind |-> "noise", sent |-> <<>>, stream |-> <<85, 85, 170, 170>>] }

InitEmpty ==
    /\ InitWindowState
    /\ ui_ops = 0
    /\ InitAlgoIdle
    /\ InitThreadsIdle
    /\ \E st \in EmptyFeedStreams :
          /\ kind = st.kind
          /\ sent = st.sent
          /\ stream = st.stream
    /\ pos = 0
    /\ nfeeds = 0
    /\ buffer = <<>>
    /\ results = <<>>
    /\ out = <<>>
    /\ feed_pc = "idle"

\* what a read of the port may hand to on_bytes: one of Chunks, or no bytes
ChunksOrNone == Chunks \cup { <<>> }

\* a run makes at most MaxFeeds calls of feed, with a few bytes, with all
\* that is left, or with none; the window is given chunks, some of them
\* empty, and ticks
NextEmpty ==
    \/ \E k \in PortReads : nfeeds < MaxFeeds /\ Feed(k)
    \/ nfeeds < MaxFeeds /\ FeedEmpty
    \/ \E b \in ChunksOrNone :
          /\ delivered + Len(b) <= MaxDelivered
          /\ on_bytes(b) /\ UNCHANGED <<parserVars, ui_ops, algoVars, threadVars>>
    \/ on_timer /\ UNCHANGED <<parserVars, ui_ops, algoVars, threadVars>>

SpecEmpty == InitEmpty /\ [][NextEmpty]_vars

\* C23: a feed call with an empty chunk returns no entries and leaves the
\* buffer as the previous calls left it, byte for byte; on_bytes with an
\* empty chunk leaves the sample window, its capacity and the display as
\* they were.
C23_EmptyChunkNoOp ==
    /\ [][(nfeeds' = nfeeds + 1 /\ pos' = pos) =>
            /\ results' = <<>>
            /\ buffer' = buffer
            /\ out' = out]_vars
    /\ [][(last_op' = "on_bytes" /\ delivered' = delivered) =>
            UNCHANGED <<plot_x, plot_y, maxlen, pushed, displayVars>>]_vars

\* one of three feed calls was empty and six bytes of a pending frame are
\* in the buffer, whole; the last on_bytes call was empty too: the window
\* holds exactly what the tick before it drew
C23_Witness ==
    /\ kind = "frames"
    /\ pos = 6 /\ nfeeds = 3
    /\ buffer = Slice(stream, 0, 6)
    /\ results = <<>>
    /\ last_op = "on_bytes"
    /\ curve # NoData
    /\ Len(curve.xs) = Len(plot_x)
    /\ Len(plot_x) = MaxDelivered

----------------------------------------------------------------------------
(* detect_r_peaks on every short slice over a few voltage levels           *)

MaxSlice == 7
SliceLevels == {0, 3, 4}
SliceFs == {5, 6, 10}

\* a slice of whole volts sampled at fs, stamped 1/fs apart
slice_signal(raw, fs) ==
    [kind |-> "slice", raw_data |-> raw, den |-> 1, fs |-> fs,
     rel_xs |-> [i \in 1..Len(raw) |-> (i - 1) * (TimeUnitsPerSec \div fs)],
     gaps |-> <<>>, dt |-> TimeUnitsPerSec \div fs, phase |-> 0, period |-> 0]

InitDetect ==
    /\ InitParserIdle
    /\ InitBuffers
    /\ InitThreadsIdle
    /\ ui_ops = 0
    /\ time_window = DEFAULT_WINDOW_SECONDS
    /\ adc_bits = 8
    /\ vref = 50
    /\ r_threshold_ratio = 45
    /\ min_r_interval = 45
    /\ \E n \in 0..MaxSlice : \E raw \in [1..n -> SliceLevels] : \E fs \in SliceFs :
          signal = slice_signal(raw, fs)
    /\ sampling_rate = signal.fs
    /\ peaks_out = NotRun
    /\ bpm_out = NotRun
    /\ InitCrcIdle

SpecDetect == InitDetect /\ [][NextAlgo]_vars

\* max(1, round(min_interval_seconds * sampling_rate))
MinSpacing == Max(1, RoundHalfEven(min_r_interval * signal.fs, 100))

\* values[i] > threshold for the 0-based index i of the slice
AboveThreshold(i) ==
    2000 * Len(signal.raw_data) * signal.raw_data[i + 1]
        > threshold(signal.raw_data, signal.den)

SliceCandidates ==
    { i \in 1..(Len(signal.raw_data) - 2) :
        /\ AboveThreshold(i)
        /\ signal.raw_data[i + 1] > signal.raw_data[i]
        /\ signal.raw_data[i + 1] >= signal.raw_data[i + 2] }

\* C25: detect_r_peaks decides on the candidates from left to right and
\* never goes back: the first candidate of the slice is accepted; a later
\* candidate is accepted exactly when it lies at least the minimum spacing
\* past the last candidate accepted before it, whatever its value; the
\* returned list holds the accepted candidates in that order, none removed
\* or replaced.
C25_GreedyPass ==
    (peaks_out.called /\ signal.kind = "slice") =>
        LET p == peaks_out.value
            accepted == { p[k] : k \in 1..Len(p) }
        IN  /\ \A k \in 1..(Len(p) - 1) : p[k] < p[k + 1]
            /\ accepted \subseteq SliceCandidates
            /\ SliceCandidates # {} =>
                  /\ Len(p) >= 1
                  /\ \A c \in SliceCandidates : p[1] <= c
            /\ \A c \in SliceCandidates :
                  LET before == { a \in accepted : a < c }
                  IN  c \in accepted <=>
                          \A a \in before : c - a >= MinSpacing

\* a candidate of 4 V was rejected two samples after an accepted peak of 3 V,
\* and the candidate after it was accepted
C25_Witness ==
    /\ peaks_out.called
    /\ signal.kind = "slice"
    /\ Len(peaks_out.value) = 2
    /\ \E c \in SliceCandidates :
          /\ c = peaks_out.value[1] + 2
          /\ c < peaks_out.value[2]
          /\ signal.raw_data[c + 1] > signal.raw_data[peaks_out.value[1] + 1]

----------------------------------------------------------------------------
(* The intervals the estimator keeps                                       *)

\* the intervals between the times of the peaks the detector finds in the
\* signal of the call
CallIntervals ==
    LET peaks == detect_r_peaks(signal.raw_data, signal.den, signal.fs)
    IN  [i \in 1..(Len(peaks) - 1) |->
            signal.rel_xs[peaks[i + 1] + 1] - signal.rel_xs[peaks[i] + 1]]

\* the positions of the intervals d with 0.5 * avg <= d <= 1.5 * avg, avg
\* being the mean of all of them
KeptIntervals ==
    LET d == CallIntervals
    IN  { i \in 1..Len(d) : /\ 2 * Len(d) * d[i] >= Sum(d)
                             /\ 2 * Len(d) * d[i] <= 3 * Sum(d) }

\* C26: the estimator returns None when the detector finds fewer than 2
\* peaks; otherwise it keeps exactly the intervals between consecutive peaks
\* that lie within [0.5 * avg, 1.5 * avg], avg being the mean of all the
\* intervals, computed once; it returns None when none is kept, and
\* otherwise takes the mean of the kept intervals as the period its rate is
\* computed from.
C26_OutlierRejection ==
    bpm_out.called =>
        LET d == CallIntervals
            kept == pick(d, KeptIntervals, 1)
        IN  /\ Len(d) = 0 => bpm_out.value = None
            /\ (Len(d) >= 1 /\ kept = <<>>) => bpm_out.value = None
            /\ (Len(d) >= 1 /\ kept # <<>>) =>
                  bpm_out.value = GatedRate(Sum(kept), Len(kept))

\* pulses 3, 5 and 12 samples apart: only the interval of 5 samples lies
\* within half and one and a half times the mean of 6 2/3, and the rate is
\* that of a period of 5 samples
C26_Witness ==
    /\ bpm_out.called
    /\ signal.kind = "pulses"
    /\ signal.gaps = <<3, 5, 12>>
    /\ signal.dt = 10000
    /\ KeptIntervals = {2}
    /\ bpm_out.value = 72

\* one pulse pair too unlike each other: no interval is kept
C26_NoneKept ==
    /\ bpm_out.called
    /\ signal.kind = "pulses"
    /\ Len(CallIntervals) = 2
    /\ KeptIntervals = {}
    /\ bpm_out.value = None

\* a sawtooth slice with a single top: fewer than 2 peaks
C26_OnePeak ==
    /\ bpm_out.called
    /\ signal.kind = "sawtooth"
    /\ Len(detect_r_peaks(signal.raw_data, signal.den, signal.fs)) = 1
    /\ bpm_out.value = None

----------------------------------------------------------------------------
(* The slice a tick takes from the window, with chunks arriving whole      *)
(* seconds apart                                                           *)

MaxSeconds == 4

\* the clock moves on by one second
OneSecond == TimeUnitsPerSec

InitSnapshot == InitWindow

NextSnapshot ==
    \/ \E b \in Chunks :
          /\ delivered + Len(b) <= MaxDelivered
          /\ on_bytes(b) /\ UNCHANGED <<parserVars, ui_ops, algoVars, threadVars>>
    \/ on_timer /\ UNCHANGED <<parserVars, ui_ops, algoVars, threadVars>>
    \/ \E t \in WindowChoices :
          on_window_changed(t) /\ UiOp /\ UNCHANGED <<parserVars, algoVars, threadVars>>
    \/ on_sampling_changed(SlowRate) /\ UiOp /\ UNCHANGED <<parserVars, algoVars, threadVars>>
    \/ /\ now + OneSecond <= MaxSeconds * OneSecond
       /\ advance_time(OneSecond) /\ UNCHANGED <<parserVars, ui_ops, algoVars, threadVars>>

SpecSnapshot == InitSnapshot /\ [][NextSnapshot]_vars

\* C27: the slice a tick draws from a non-empty window is made of exactly
\* the buffered samples stamped at or after latest - duration, latest being
\* the timestamp of the sample pushed last, in buffer order, each at the
\* relative time timestamp - (latest - duration) with its voltage; every
\* relative time lies in [0, duration] and the newest sample sits at exactly
\* duration.
C27_SnapshotSelection ==
    (last_op = "on_timer" /\ plot_x # <<>>) =>
        LET latest == pushed[Len(pushed)][1]
            duration == time_window * TimeUnitsPerSec
            selected == { i \in 1..Len(plot_x) : plot_x[i] >= latest - duration }
            times == pick(plot_x, selected, 1)
            codes == pick(plot_y, selected, 1)
        IN  /\ Len(curve.xs) = Cardinality(selected)
            /\ Len(curve.ys) = Cardinality(selected)
            /\ \A k \in 1..Len(curve.xs) :
                  /\ curve.xs[k] = times[k] - (latest - duration)
                  /\ curve.ys[k] = adc_to_voltage(codes[k])
                  /\ 0 <= curve.xs[k] /\ curve.xs[k] <= duration
            /\ curve.den = volt_den
            /\ curve.xs[Len(curve.xs)] = duration

\* a window of 2 s holds samples stamped more than 2 s, exactly 2 s and 0 s
\* before the newest: the tick drew the last two, the older at relative
\* time 0
C27_Witness ==
    /\ last_op = "on_timer"
    /\ time_window = 2
    /\ Len(plot_x) = 3
    /\ plot_x[3] - plot_x[1] > 2 * TimeUnitsPerSec
    /\ plot_x[3] - plot_x[2] = 2 * TimeUnitsPerSec
    /\ Len(curve.xs) = 2
    /\ curve.xs[1] = 0
    /\ curve.xs[2] = 2 * TimeUnitsPerSec

----------------------------------------------------------------------------
(* serial_manager.py: SerialThread.  open and close are called on the GUI  *)
(* thread and run() executes on the reader thread; both work on the same   *)
(* fields without a lock, so they interleave statement by statement.       *)
(* Each open call creates a new port object, numbered by the call; the     *)
(* port always has bytes waiting.                                          *)

MaxOpens == 2
MaxCloses == 1

\* QThread.isRunning(): run() was started and has not returned yet
isRunning == serial.run_pc \in {"while", "body", "finally", "exiting"}

\* self._ser and self._ser.is_open
ser_is_open == serial.ser # None /\ serial.ser \in serial.is_open

\* the GUI thread calls open(port, baud): line 32 decides whether close()
\* runs first
CallOpen ==
    /\ serial.call_pc = "idle"
    /\ serial.opens < MaxOpens
    /\ serial' = [serial EXCEPT !.opens = @ + 1,
                                !.in_open = TRUE,
                                !.call_pc = IF ser_is_open THEN "close_flag"
                                            ELSE "open_serial"]

\* the GUI thread calls close()
CallClose ==
    /\ serial.call_pc = "idle"
    /\ serial.closes < MaxCloses
    /\ serial' = [serial EXCEPT !.closes = @ + 1,
                                !.in_open = FALSE,
                                !.call_pc = "close_flag"]

\* close, line 46: self._running = False
CloseFlag ==
    /\ serial.call_pc = "close_flag"
    /\ serial' = [serial EXCEPT !.running = FALSE, !.call_pc = "close_port"]

\* close, lines 47-56: the port is closed if it is open, closed is emitted;
\* a close called from open returns into open
ClosePort ==
    /\ serial.call_pc = "close_port"
    /\ serial' = [serial EXCEPT !.is_open = @ \ {serial.ser},
                                !.last_signal = "closed",
                                !.call_pc = IF serial.in_open THEN "open_serial"
                                            ELSE "idle"]

\* open, lines 35-37: self._ser = serial.Serial(...) succeeds
OpenSerial ==
    /\ serial.call_pc = "open_serial"
    /\ serial' = [serial EXCEPT !.ser = serial.opens,
                                !.is_open = @ \cup {serial.opens},
                                !.call_pc = "open_running"]

\* open, line 38: self._running = True
OpenRunning ==
    /\ serial.call_pc = "open_running"
    /\ serial' = [serial EXCEPT !.running = TRUE, !.call_pc = "open_start"]

\* open, lines 39-40: if not self.isRunning(): self.start()
OpenStart ==
    /\ serial.call_pc = "open_start"
    /\ serial' = [serial EXCEPT !.run_pc = IF isRunning THEN @ ELSE "while",
                                !.call_pc = "open_emit"]

\* open, line 41: self.opened.emit()
OpenEmit ==
    /\ serial.call_pc = "open_emit"
    /\ serial' = [serial EXCEPT !.last_signal = "opened",
                                !.in_open = FALSE,
                                !.call_pc = "idle"]

\* run, line 61: while self._running
RunWhile ==
    /\ serial.run_pc = "while"
    /\ serial' = [serial EXCEPT !.run_pc = IF serial.running THEN "body"
                                           ELSE "finally"]

\* run, lines 62-75: bytes waiting on an open port are read and emitted;
\* without an open port the thread sleeps
RunBody ==
    /\ serial.run_pc = "body"
    /\ serial' = [serial EXCEPT !.received = IF ser_is_open THEN @ \cup {serial.ser}
                                             ELSE @,
                                !.run_pc = "while"]

\* run, lines 76-82: finally: the port self._ser refers to is closed if open
RunFinally ==
    /\ serial.run_pc = "finally"
    /\ serial' = [serial EXCEPT !.is_open = @ \ {serial.ser},
                                !.run_pc = "exiting"]

\* run() has returned and the thread finishes
RunExit ==
    /\ serial.run_pc = "exiting"
    /\ serial' = [serial EXCEPT !.run_pc = "finished"]

InitSerial ==
    InitParserIdle /\ InitWindowState /\ ui_ops = 0 /\ InitAlgoIdle /\ InitThreadsIdle

NextSerial ==
    /\ \/ CallOpen
       \/ CallClose
       \/ CloseFlag
       \/ ClosePort
       \/ OpenSerial
       \/ OpenRunning
       \/ OpenStart
       \/ OpenEmit
       \/ RunWhile
       \/ RunBody
       \/ RunFinally
       \/ RunExit
    /\ UNCHANGED <<parserVars, windowVars, ui_ops, algoVars,
                   running, event_queue, observed, ticks>>

SpecSerial == InitSerial /\ [][NextSerial]_vars

\* the last call on the GUI thread was an open that emitted opened
OpenedLast == serial.call_pc = "idle" /\ serial.last_signal = "opened"

\* C28: once open has emitted opened, and until close or open is called
\* again, a reader thread is executing the loop of run() with _running true
\* and the port that open created is open: the cleanup of a reader that is
\* on its way out has not closed it, and no opened port is left without a
\* reader.
C28_ReaderAlive ==
    OpenedLast =>
        /\ serial.running
        /\ serial.run_pc \in {"while", "body"}
        /\ ser_is_open

\* a close and then an open: opened was emitted for the second port, but the
\* reader that saw _running false has finished and no other was started, and
\* nothing was ever read from the second port
C28_NoReader ==
    /\ OpenedLast
    /\ serial.opens = 2 /\ serial.closes = 1
    /\ serial.ser = 2
    /\ serial.run_pc = "finished"
    /\ ser_is_open
    /\ 2 \notin serial.received

\* opened was emitted for the second port and the cleanup of the reader on
\* its way out has closed that port
C28_ClosedByCleanup ==
    /\ OpenedLast
    /\ serial.ser = 2
    /\ serial.run_pc = "finished"
    /\ ~ser_is_open

----------------------------------------------------------------------------
(* Long streams: a header pair that declares the largest LEN, noise, and   *)
(* header pairs nested in the bytes the candidate waits for                *)

\* the largest value the LEN byte can hold, and the frame it declares
LEN_MAX == 255
LongestFrame == HEADER_LEN + 1 + 1 + LEN_MAX + 2

\* how far a stream goes on past the end of the longest frame
Overrun == 3

\* the transport delivers one byte, BigChunk bytes, or all that is left
BigChunk == 100

\* the first n bytes of pat pat pat ...
repeat(pat, n) == [i \in 1..n |-> pat[((i - 1) % Len(pat)) + 1]]

\* what follows the header pair and its LEN byte: zeros, first halves of the
\* header, or more header pairs with the largest LEN
Fillers == { <<0>>, <<170>>, <<170, 85, 255>> }

LongStreams ==
    { HEADER \o <<LEN_MAX>> \o repeat(p, LongestFrame - 3 + Overrun) : p \in Fillers }
    \cup { repeat(<<0>>, LongestFrame + Overrun) }
    \cup { framed(2, repeat(<<7>>, LEN_MAX)) \o repeat(<<0>>, Overrun) }

InitLong ==
    /\ InitWindowState
    /\ ui_ops = 0
    /\ InitAlgoIdle
    /\ InitThreadsIdle
    /\ kind = "long"
    /\ sent = <<>>
    /\ stream \in LongStreams
    /\ pos = 0
    /\ nfeeds = 0
    /\ buffer = <<>>
    /\ results = <<>>
    /\ out = <<>>
    /\ feed_pc = "idle"

NextLong == \E k \in {1, BigChunk, Len(stream) - pos} : Feed(k)

SpecLong == InitLong /\ [][NextLong]_vars

\* C29: after every feed call the buffer holds fewer than 6 + 255 = 261
\* bytes, and what it holds is either fewer than 6 bytes or starts with the
\* header pair of a candidate frame whose 6 + LEN bytes have not all
\* arrived.
C29_BufferBound ==
    /\ Len(buffer) < 261
    /\ \/ Len(buffer) < 6
       \/ /\ buffer[1] = 170 /\ buffer[2] = 85
          /\ Len(buffer) < 6 + buffer[3]

\* 260 bytes wait in the buffer behind a header pair that declares LEN 255
C29_Witness ==
    /\ kind = "long"
    /\ nfeeds >= 1
    /\ Len(buffer) = 260
    /\ buffer[3] = 255

\* the candidate of 261 bytes arrived whole, failed the CRC comparison and
\* the decoder went on to the header pair nested behind it
C29_Resynced ==
    /\ kind = "long"
    /\ pos > 261
    /\ out = <<>>
    /\ Len(buffer) > 6
    /\ buffer # Slice(stream, 0, pos)

============================================================================
